---------------------------- MODULE Spec2Model ----------------------------
(***************************************************************************)
(* A model of source/parse_series.py of PRACT1-BPS: the format sniffer,   *)
(* the multi-strategy table reader, header promotion and the month        *)
(* normalisation of the emitted series.                                   *)
(*                                                                         *)
(* Each component has its own specification (SpecSniff, SpecReader,       *)
(* SpecPromote, SpecSeries).  A specification leaves the variables of the  *)
(* other components at their idle values.                                  *)
(***************************************************************************)
EXTENDS Integers, Sequences, FiniteSets, TLC

VARIABLES
    \* ---- _engine_from_ext_or_sniff(url, bytes_buf) ----
    url,        \* the path and the query of the URL, each a tuple of characters
    buf,        \* bytes_buf, a tuple of byte values 0..255
    sniffPc,    \* "idle" | "call" | "done"
    sniffRes,   \* the local `sniff` of _engine_from_ext_or_sniff
    kindOut,    \* the returned kind
    engineOut,  \* the returned engine
    \* ---- _read_table_like(bytes_buf, kind, engine, logger, sheet, header_hint) ----
    kind,       \* parameter kind
    workbook,   \* xls.sheet_names of the document, a tuple of names
    sheet,      \* parameter sheet: None, a name or a 0-based index
    hint,       \* parameter header_hint: <<>> for None, <<h>> for the row index h
    pc,         \* the position of the reader in its chain
    tried,      \* the strategies entered so far, in order
    logged,     \* the strategies that yielded nothing so far, in order
    sheetIdx,   \* _try_read_excel: index in sheets_to_try of the sheet being read
    hdrIdx,     \* index in the header list (or separator list) being tried
    attempts,   \* _try_read_excel: the (sheet, header) pairs read so far, in order
    best,       \* _try_read_excel: best_df, best_score and best_df_sheet
    topScore,   \* history: the greatest score of the tables read and not returned
    result,     \* what the reader returned or raised
    rest,       \* what the rest of the chain would have yielded on this document
    \* ---- _promote_row_with_fecha_as_header(df, max_scan) ----
    tbl,        \* df: [cols |-> labels, rows |-> tuple of rows of cells]
    maxScan,    \* parameter max_scan
    promoPc,    \* "idle" | "call" | "done"
    promoted,   \* the returned table, or None
    kept,       \* the table the caller goes on with
    \* ---- out["fecha"] = _fix_excel_serial_dates(...); out = _norm_mes(out, "fecha") ----
    src,        \* the rows of the table read: [fecha |-> cell, val |-> number]
    dates_from_str, \* _fix_excel_serial_dates: what pd.to_datetime(s_str) gave, row by row
    seriesPc,   \* "idle" | "call" | "done"
    series,     \* the rows of `out` after _norm_mes
    \* ---- _to_num(series) ----
    column,     \* parameter series: a tuple of cells
    numPc,      \* "idle" | "call" | "done"
    numOut,     \* the returned series: a tuple of numbers and NaN
    \* ---- parse_desempleo / parse_recaudacion, from the cleaned table on ----
    doc,        \* "desempleo" | "recaudacion": which of the two parsers runs
    columns,    \* df.columns after the cleaning, the promotion and the strip
    sheetParam, \* parameter sheet
    sheet_name, \* df.attrs.get("sheet_name", "")
    fecha_col_guess, \* parameter fecha_col_guess; <<>> is None
    mapPc,      \* "idle" | "read" | "date" | "metrics" | "validate" | "done"
    c0hit,      \* whether over 30% of the first column's cells look like dates
    fecha_col,  \* the date column found; <<>> is None
    vocab,      \* the branch of cand_map taken
    out,        \* the assignments out[target] = ... made, in order
    mapResult,  \* NoResult, the file written, or the error raised
    mapLogged,  \* what the validation wrote to the log with logger.warning
    out_csv,    \* the calls of out.to_csv(out_csv): the header written by each
    zonas,      \* the rows of out["altas_montevideo"], out["altas_interior"]
    altas       \* the rows of out["altas"] when it is computed from them

sniffVars  == <<url, buf, sniffPc, sniffRes, kindOut, engineOut>>
readerVars == <<kind, workbook, sheet, hint, pc, tried, logged, sheetIdx, hdrIdx,
                attempts, best, topScore, result, rest>>
promoVars  == <<tbl, maxScan, promoPc, promoted, kept>>
seriesVars == <<src, dates_from_str, seriesPc, series>>
numVars    == <<column, numPc, numOut>>
mapVars    == <<doc, columns, sheetParam, sheet_name, fecha_col_guess, mapPc,
                c0hit, fecha_col, vocab, out, mapResult, mapLogged, out_csv,
                zonas, altas>>
vars == <<sniffVars, readerVars, promoVars, seriesVars, numVars, mapVars>>

\* Python's None where a string or a number is expected, and where a table is.
None == "None"
NoTable == [none |-> TRUE]

\* The parameter sheet: None, a sheet name or a 0-based sheet index.
NoSheet        == [t |-> "none"]
SheetName(n)   == [t |-> "name", name |-> n]
SheetIndex(i)  == [t |-> "idx", idx |-> i]

\* best_df = None, best_df_sheet = None, best_score = (-1, -1)
NoBest == [df |-> NoTable, score |-> <<-1, -1>>, sheet |-> NoSheet]

\* The reader has neither returned nor raised.
NoResult == [t |-> "none"]

Max(a, b) == IF a >= b THEN a ELSE b
Min(a, b) == IF a <= b THEN a ELSE b

\* All tuples over S of length at most n.
SeqsUpTo(S, n) == UNION {[1..k -> S] : k \in 0..n}

(***************************************************************************)
(* Idle values of each component.                                          *)
(***************************************************************************)
SniffIdle ==
    /\ url = <<>> /\ buf = <<>> /\ sniffPc = "idle"
    /\ sniffRes = None /\ kindOut = None /\ engineOut = None

ReaderIdle ==
    /\ kind = None /\ workbook = <<>> /\ sheet = NoSheet /\ hint = <<>>
    /\ pc = "idle" /\ tried = <<>> /\ logged = <<>>
    /\ sheetIdx = 0 /\ hdrIdx = 0 /\ attempts = <<>>
    /\ best = NoBest /\ topScore = <<-1, -1>>
    /\ result = NoResult /\ rest = NoTable

PromoIdle ==
    /\ tbl = NoTable /\ maxScan = 0 /\ promoPc = "idle"
    /\ promoted = NoTable /\ kept = NoTable

SeriesIdle ==
    /\ src = <<>> /\ dates_from_str = <<>> /\ seriesPc = "idle" /\ series = <<>>

NumIdle ==
    /\ column = <<>> /\ numPc = "idle" /\ numOut = <<>>

MapIdle ==
    /\ doc = None /\ columns = <<>> /\ sheetParam = NoSheet /\ sheet_name = <<>>
    /\ fecha_col_guess = <<>> /\ mapPc = "idle" /\ c0hit = FALSE
    /\ fecha_col = <<>> /\ vocab = None /\ out = <<>> /\ mapResult = NoResult
    /\ mapLogged = <<>> /\ out_csv = <<>> /\ zonas = <<>> /\ altas = <<>>

(***************************************************************************)
(*                          FORMAT SNIFFER                                 *)
(***************************************************************************)

\* Bound of the sniffer's inputs: the number of free bytes of a buffer.
MaxBufLen == 3

\* bytes_buf[:8]
HeadLen == 8

\* The byte values the free part of a buffer is built from:
\*   80 'P', 75 'K', 60 '<', 32 ' ', 208 (0xD0, the first byte of the OLE2
\*   signature and a UTF-8 two-byte lead), 224 (0xE0, the last byte of the OLE2
\*   signature and a UTF-8 three-byte lead), 169 (a UTF-8 continuation byte).
ByteAlphabet == {80, 75, 60, 32, 208, 224, 169}

\* A run of n bytes 'a'.
Pad(n) == [i \in 1..n |-> 97]

\* What a buffer starts with: nothing, the first three bytes D0 CF 11 of the
\* OLE2 signature, or HeadLen-1 bytes of text (the first free byte is then the
\* last byte of the head and the others lie beyond the head).
Prefixes == {<<>>, <<208, 207, 17>>, Pad(HeadLen - 1)}

Buffers == {p \o b : p \in Prefixes, b \in SeqsUpTo(ByteAlphabet, MaxBufLen)}

Take(s, n) == SubSeq(s, 1, Min(n, Len(s)))

StartsWith(s, p) == Len(s) >= Len(p) /\ SubSeq(s, 1, Len(p)) = p

EndsWith(s, p) == Len(s) >= Len(p) /\ SubSeq(s, Len(s) - Len(p) + 1, Len(s)) = p

\* bytes.lstrip(): leading ASCII whitespace removed.
AsciiSpace == {9, 10, 11, 12, 13, 32}

RECURSIVE LStripBytes(_)
LStripBytes(s) ==
    IF s # <<>> /\ Head(s) \in AsciiSpace THEN LStripBytes(Tail(s)) ELSE s

IsCont(b) == b >= 128 /\ b <= 191

\* bytes.decode("utf-8") succeeds on s from position i on (strict decoding).
RECURSIVE Utf8From(_, _)
Utf8From(s, i) ==
    IF i > Len(s) THEN TRUE
    ELSE LET b == s[i]
             n == Len(s)
         IN  IF b < 128 THEN Utf8From(s, i + 1)
             ELSE IF b >= 194 /\ b <= 223
                  THEN i + 1 <= n /\ IsCont(s[i+1]) /\ Utf8From(s, i + 2)
             ELSE IF b >= 224 /\ b <= 239
                  THEN /\ i + 2 <= n
                       /\ IsCont(s[i+1]) /\ IsCont(s[i+2])
                       /\ (b = 224 => s[i+1] >= 160)
                       /\ (b = 237 => s[i+1] <= 159)
                       /\ Utf8From(s, i + 3)
             ELSE IF b >= 240 /\ b <= 244
                  THEN /\ i + 3 <= n
                       /\ IsCont(s[i+1]) /\ IsCont(s[i+2]) /\ IsCont(s[i+3])
                       /\ (b = 240 => s[i+1] >= 144)
                       /\ (b = 244 => s[i+1] <= 143)
                       /\ Utf8From(s, i + 4)
             ELSE FALSE

Utf8Ok(s) == Utf8From(s, 1)

\* _sniff(bytes_buf)
Sniff(bytes_buf) ==
    LET head == Take(bytes_buf, HeadLen)
    IN  IF Take(head, 2) = <<80, 75>> THEN "xlsx"
        ELSE IF StartsWith(head, <<208, 207, 17, 224>>) THEN "xls"
        ELSE IF StartsWith(LStripBytes(head), <<60>>) THEN "html"
        ELSE IF Utf8Ok(head) THEN "text"
        ELSE "unknown"

\* str.lower() on the characters the URLs, the sheet names and the column
\* labels are built from; an accented letter is one character, written by name.
UpperChars ==
    <<"A", "B", "C", "D", "E", "F", "H", "I", "L", "M", "N", "O", "P", "R", "S", "T",
      "U", "V", "X", "Iacute", "Oacute", "Uacute">>
LowerChars ==
    <<"a", "b", "c", "d", "e", "f", "h", "i", "l", "m", "n", "o", "p", "r", "s", "t",
      "u", "v", "x", "iacute", "oacute", "uacute">>
LowerOf ==
    [c \in {UpperChars[i] : i \in 1..Len(UpperChars)} |->
        LowerChars[CHOOSE i \in 1..Len(UpperChars) : UpperChars[i] = c]]
LowerChar(c) == IF c \in DOMAIN LowerOf THEN LowerOf[c] ELSE c

Lower(s) == [i \in 1..Len(s) |-> LowerChar(s[i])]

\* sub occurs in s from position i on
Occurs(s, sub, i) ==
    /\ i >= 1 /\ i + Len(sub) - 1 <= Len(s)
    /\ SubSeq(s, i, i + Len(sub) - 1) = sub

\* `sub in s`
Contains(s, sub) == \E i \in 1..Len(s) : Occurs(s, sub, i)

ExtXlsx == <<".", "x", "l", "s", "x">>
ExtXls  == <<".", "x", "l", "s">>

\* The URLs: [path, query] as urlparse splits them.
Urls ==
    {[path |-> <<"/", "a">>, query |-> <<>>],
     [path |-> <<"/", "a">> \o ExtXls, query |-> <<>>],
     [path |-> <<"/", "a">> \o ExtXlsx, query |-> <<>>],
     [path |-> <<"/", "A", ".", "X", "L", "S">>, query |-> <<>>],
     [path |-> <<"/", "a", ".", "x", "l", "s", "x", "/", "a">>,
      query |-> <<"f", "=", "a">> \o ExtXlsx]}

\* The kind the extension alone gives (lines 62-67).
ExtGuess(u) ==
    LET path == Lower(u.path)
    IN  IF EndsWith(path, ExtXlsx) THEN "xlsx"
        ELSE IF EndsWith(path, ExtXls) THEN "xls"
        ELSE None

\* The mutant of EngineFromExtOrSniff that trusts the extension first.
EngineFromExtFirst(u, bytes_buf) ==
    LET guess == ExtGuess(u)
        sniff == Sniff(bytes_buf)
        k     == IF guess # None THEN guess
                 ELSE IF sniff \in {"xlsx", "xls", "html", "text"} THEN sniff
                 ELSE None
    IN  [kind |-> k, sniff |-> sniff,
         engine |-> IF k = "xlsx" THEN "openpyxl" ELSE IF k = "xls" THEN "xlrd" ELSE None]

\* The mutant of EngineFromExtOrSniff that passes the sniff result on as it is.
EngineFromSniffAsIs(u, bytes_buf) ==
    LET guess == ExtGuess(u)
        sniff == Sniff(bytes_buf)
        k     == IF sniff \in {"xlsx", "xls", "html", "text"} THEN sniff
                 ELSE IF guess # None THEN guess ELSE sniff
    IN  [kind |-> k, sniff |-> sniff,
         engine |-> IF k = "xlsx" THEN "openpyxl" ELSE IF k = "xls" THEN "xlrd" ELSE None]

\* _engine_from_ext_or_sniff(url, bytes_buf)
EngineFromExtOrSniff(u, bytes_buf) ==
    LET guess == ExtGuess(u)
        sniff == Sniff(bytes_buf)
        k     == IF sniff \in {"xlsx", "xls", "html", "text"} THEN sniff ELSE guess
    IN  [kind |-> k, sniff |-> sniff,
         engine |-> IF k = "xlsx" THEN "openpyxl" ELSE IF k = "xls" THEN "xlrd" ELSE None]

InitSniff ==
    /\ url \in Urls
    /\ buf \in Buffers
    /\ sniffPc = "call"
    /\ sniffRes = None /\ kindOut = None /\ engineOut = None
    /\ ReaderIdle /\ PromoIdle /\ SeriesIdle /\ NumIdle /\ MapIdle

\* The call kind, engine = _engine_from_ext_or_sniff(xls_url, bytes_buf).
SniffCall ==
    /\ sniffPc = "call"
    /\ LET r == EngineFromExtOrSniff(url, buf)
       IN  /\ sniffRes' = r.sniff
           /\ kindOut' = r.kind
           /\ engineOut' = r.engine
    /\ sniffPc' = "done"
    /\ UNCHANGED <<url, buf, readerVars, promoVars, seriesVars, numVars, mapVars>>

NextSniff == SniffCall

SpecSniff == InitSniff /\ [][NextSniff]_vars

Decisive == {"xlsx", "xls", "html", "text"}

C8_KindInClosedSet ==
    sniffPc = "done" => kindOut \in Decisive \cup {"unknown"}

\* C8 amended: the returned kind is one of the four decisive kinds or None, and
\* it is None exactly when the sniff of the first 8 bytes is "unknown" and the
\* path ends in neither .xls nor .xlsx; "unknown" is a value of the inner sniff
\* only.
C8_KindOrNone ==
    sniffPc = "done" =>
        /\ kindOut \in Decisive \cup {None}
        /\ sniffRes \in Decisive \cup {"unknown"}
        /\ (kindOut = None <=> sniffRes = "unknown" /\ ExtGuess(url) = None)

\* C8's case: a buffer that is valid UTF-8 as a whole but whose head cuts a
\* two-byte character, under a URL without a spreadsheet extension.
C8_Witness ==
    /\ sniffPc = "done"
    /\ Utf8Ok(buf) /\ ~Utf8Ok(Take(buf, HeadLen))
    /\ ExtGuess(url) = None
    /\ kindOut = None

(***************************************************************************)
(*                          HEADER PROMOTION                               *)
(***************************************************************************)

\* Bounds of the tables header promotion is applied to.
MaxRows == 3
MaxScanArg == 2

\* The widths of those tables.
TableWidths == {1, 2}

\* def _promote_row_with_fecha_as_header(df, max_scan: int = 20)
DefaultMaxScan == 20

\* def _looks_unnamed_columns(df, threshold: float = 0.9), as a fraction.
ThresholdNum == 9
ThresholdDen == 10

\* A cell: NaN, or a string as a tuple of characters.
NaNCell == [nan |-> TRUE, s |-> <<>>]
Str(s)  == [nan |-> FALSE, s |-> s]

Fecha == <<"f", "e", "c", "h", "a">>

\* The cells the tables are built from: NaN, " Fecha " and "x".
Cells == {NaNCell, Str(<<" ", "F", "e", "c", "h", "a", " ">>), Str(<<"x">>)}

\* The labels the tables are built from: "Unnamed: 0", " " and "x".
UnnamedPrefix == <<"U", "n", "n", "a", "m", "e", "d", ":">>
Labels == {UnnamedPrefix \o <<" ", "0">>, <<" ">>, <<"x">>}

\* The tables of w columns and k rows.
Tables(w, k) ==
    {[cols |-> c, rows |-> r] : c \in [1..w -> Labels], r \in [1..k -> [1..w -> Cells]]}

\* str.strip(): white space removed at both ends.
RECURSIVE LStrip(_)
LStrip(s) == IF s # <<>> /\ Head(s) = " " THEN LStrip(Tail(s)) ELSE s

RECURSIVE RStrip(_)
RStrip(s) ==
    IF s # <<>> /\ s[Len(s)] = " " THEN RStrip(SubSeq(s, 1, Len(s) - 1)) ELSE s

Strip(s) == RStrip(LStrip(s))

\* str.lower() on the characters of the cells.
LowerCell(s) ==
    [i \in 1..Len(s) |-> IF s[i] = "F" THEN "f" ELSE LowerChar(s[i])]

\* df.astype(object).where(pd.notna(df), "").astype(str), on one cell
StrOf(cell) == IF cell.nan THEN <<>> ELSE cell.s

\* The number of elements of 1..n that satisfy Test.
Count(n, Test(_)) == Cardinality({j \in 1..n : Test(j)})

\* The number of labels _looks_unnamed_columns counts.
UnnamedCount(cols) ==
    LET IsUnnamed(j) == StartsWith(cols[j], UnnamedPrefix) \/ Strip(cols[j]) = <<>>
    IN  Count(Len(cols), IsUnnamed)

\* (cnt / max(1, len(cols))) >= threshold
OverThreshold(cnt, ncols) == cnt * ThresholdDen >= ThresholdNum * Max(1, ncols)

\* _looks_unnamed_columns(df)
LooksUnnamedColumns(df) == OverThreshold(UnnamedCount(df.cols), Len(df.cols))

\* any(cell == "fecha" for cell in row), row being stripped and lower-cased
HasFecha(row) == \E j \in 1..Len(row) : LowerCell(Strip(StrOf(row[j]))) = Fecha

\* f"col_{j}" for the 0-based position j
ColName(j) == <<"c", "o", "l", "_">> \o <<<<"0", "1", "2", "3", "4">>[j + 1]>>

\* new_cols (line 168) of the row promoted
NewCols(row) ==
    [j \in 1..Len(row) |->
        IF Strip(StrOf(row[j])) # <<>> THEN Strip(StrOf(row[j])) ELSE ColName(j - 1)]

\* The elements of a set of numbers in ascending order.
RECURSIVE Ascending(_)
Ascending(S) ==
    IF S = {} THEN <<>>
    ELSE LET m == CHOOSE x \in S : \A y \in S : y <= x
         IN  Append(Ascending(S \ {m}), m)

\* out.loc[:, out.notna().mean() > 0.0]: the columns with a value that is not
\* NaN; a table without rows keeps none (the mean of nothing is NaN).
NonEmptyColumns(width, rows) ==
    Ascending({j \in 1..width : \E r \in 1..Len(rows) : ~rows[r][j].nan})

Project(row, keep) == [k \in 1..Len(keep) |-> row[keep[k]]]

\* Lines 168-173: the table promoted from row i (1-based) of df.
PromoteAt(df, i) ==
    LET after == SubSeq(df.rows, i + 1, Len(df.rows))
        keep  == NonEmptyColumns(Len(df.cols), after)
    IN  [cols |-> Project(NewCols(df.rows[i]), keep),
         rows |-> [r \in 1..Len(after) |-> Project(after[r], keep)]]

\* The mutant of PromoteRowWithFecha that scans the whole table.
PromoteScanAll(df, max_scan) ==
    LET hits == {i \in 1..Len(df.rows) : HasFecha(df.rows[i])}
    IN  IF hits = {} THEN NoTable
        ELSE PromoteAt(df, CHOOSE i \in hits : \A k \in hits : i <= k)

\* _promote_row_with_fecha_as_header(df, max_scan)
PromoteRowWithFecha(df, max_scan) ==
    LET hits == {i \in 1..Min(max_scan, Len(df.rows)) : HasFecha(df.rows[i])}
    IN  IF hits = {} THEN NoTable
        ELSE PromoteAt(df, CHOOSE i \in hits : \A k \in hits : i <= k)

\* df.rename(columns={c: str(c).strip() for c in df.columns})
RenameStripped(df) ==
    [cols |-> [j \in 1..Len(df.cols) |-> Strip(df.cols[j])], rows |-> df.rows]

InitPromote ==
    /\ \E w \in TableWidths, k \in 0..MaxRows : tbl \in Tables(w, k)
    /\ maxScan \in (0..MaxScanArg) \cup {DefaultMaxScan}
    /\ promoPc = "call"
    /\ promoted = NoTable /\ kept = NoTable
    /\ SniffIdle /\ ReaderIdle /\ SeriesIdle /\ NumIdle /\ MapIdle

\* parse_desempleo, lines 652-657, the labels being mostly unnamed
CallerPromotes ==
    /\ promoPc = "call"
    /\ LooksUnnamedColumns(tbl)
    /\ promoted' = PromoteRowWithFecha(tbl, maxScan)
    /\ kept' = IF promoted' # NoTable THEN RenameStripped(promoted') ELSE tbl
    /\ promoPc' = "done"
    /\ UNCHANGED <<tbl, maxScan, sniffVars, readerVars, seriesVars, numVars, mapVars>>

\* parse_desempleo, lines 652-657, the labels being good enough
CallerKeeps ==
    /\ promoPc = "call"
    /\ ~LooksUnnamedColumns(tbl)
    /\ kept' = tbl
    /\ promoPc' = "skipped"
    /\ UNCHANGED <<tbl, maxScan, promoted, sniffVars, readerVars, seriesVars, numVars, mapVars>>

NextPromote == CallerPromotes \/ CallerKeeps

SpecPromote == InitPromote /\ [][NextPromote]_vars

\* The rows of the scan window that hold the marker.
MarkerRows == {i \in 1..Len(tbl.rows) : i <= maxScan /\ HasFecha(tbl.rows[i])}

FirstMarker == CHOOSE i \in MarkerRows : \A k \in MarkerRows : i <= k

\* C9 as stated: the table returned has the first marker row of the window as
\* its header and exactly the rows after it as its data rows; without a marker
\* row in the window the result is None and the caller keeps its table.
C9_PromotesWholeRow ==
    promoPc = "done" =>
        IF MarkerRows # {}
        THEN /\ promoted # NoTable
             /\ promoted.cols = NewCols(tbl.rows[FirstMarker])
             /\ promoted.rows = SubSeq(tbl.rows, FirstMarker + 1, Len(tbl.rows))
        ELSE promoted = NoTable /\ kept = tbl

\* C9 amended: header and data rows are those of C9 restricted to the columns
\* that hold a value other than NaN in some row after the marker row.
C9_PromotesNonEmptyColumns ==
    promoPc = "done" =>
        IF MarkerRows # {}
        THEN LET after == SubSeq(tbl.rows, FirstMarker + 1, Len(tbl.rows))
                 live  == {j \in 1..Len(tbl.cols) :
                             \E r \in 1..Len(after) : after[r][j] # NaNCell}
             IN  /\ promoted # NoTable
                 /\ Len(promoted.cols) = Cardinality(live)
                 /\ Len(promoted.rows) = Len(after)
                 /\ \E at \in [1..Len(promoted.cols) -> live] :
                        /\ \A a, b \in 1..Len(promoted.cols) : a < b => at[a] < at[b]
                        /\ \A a \in 1..Len(promoted.cols) :
                              /\ promoted.cols[a] = NewCols(tbl.rows[FirstMarker])[at[a]]
                              /\ \A r \in 1..Len(after) :
                                    promoted.rows[r][a] = after[r][at[a]]
                 /\ kept = promoted
        ELSE promoted = NoTable /\ kept = tbl

\* C9's case: the marker is in the second row of a table of three rows, a row
\* without marker before it, and a column is empty after it.
C9_Witness ==
    /\ promoPc = "done"
    /\ Len(tbl.rows) = 3 /\ MarkerRows # {} /\ FirstMarker = 2
    /\ promoted # NoTable
    /\ Len(promoted.cols) = 1 /\ Len(tbl.cols) = 2
    /\ Len(promoted.rows) = 1

\* C9's other case: the only marker row lies beyond the scan window.
C9_WitnessNone ==
    /\ promoPc = "done"
    /\ MarkerRows = {}
    /\ \E i \in 1..Len(tbl.rows) : HasFecha(tbl.rows[i])
    /\ promoted = NoTable /\ kept = tbl

(***************************************************************************)
(*                  DATE NORMALISATION OF THE SERIES                       *)
(***************************************************************************)

\* Bound of the series: the number of rows of the table read.
MaxSrcRows == 3

\* pandas' NaT and a Timestamp at midnight.
NaT == [y |-> 0, m |-> 0, d |-> 0]
Date(y, m, d) == [y |-> y, m |-> m, d |-> d]

\* A cell of the date column: NaN, a number or a string.
NanDate    == [t |-> "nan"]
NumDate(n) == [t |-> "num", n |-> n]
TxtDate(s) == [t |-> "txt", s |-> s]

\* The cells the date column is built from: the day serials of 2023-09-01,
\* 2023-08-01 and 2023-08-15, the number 2023 (a day serial and a year), the
\* strings "x" and " Ago-23", and NaN.
DateCells ==
    {NumDate(45170), NumDate(45139), NumDate(45153), NumDate(2023),
     TxtDate(<<"x">>), TxtDate(<<" ", "A", "g", "o", "-", "2", "3">>), NanDate}

\* The values of the metric column.
Values == {1, 2}

\* origin="1899-12-30" as a count of days from 1970-01-01
OriginDays == -25569

\* The calendar date that lies z days after 1970-01-01.
CivilFromDays(z) ==
    LET s   == z + 719468
        era == s \div 146097
        doe == s - era * 146097
        yoe == (doe - (doe \div 1460) + (doe \div 36524) - (doe \div 146096)) \div 365
        doy == doe - (365 * yoe + (yoe \div 4) - (yoe \div 100))
        mp  == (5 * doy + 2) \div 153
        d   == doy - ((153 * mp + 2) \div 5) + 1
        m   == IF mp < 10 THEN mp + 3 ELSE mp - 9
        y   == yoe + era * 400 + (IF m <= 2 THEN 1 ELSE 0)
    IN  Date(y, m, d)

\* The mutant of DateFromNum that counts the days in the 1904 date system.
DateFromNum1904(cell) ==
    IF cell.t = "num" THEN CivilFromDays(cell.n + OriginDays + 1462) ELSE NaT

\* pd.to_datetime(pd.to_numeric(cell, errors="coerce"), unit="D",
\*                origin="1899-12-30", errors="coerce")
DateFromNum(cell) ==
    IF cell.t = "num" THEN CivilFromDays(cell.n + OriginDays) ELSE NaT

DigitChars == <<"0", "1", "2", "3", "4", "5", "6", "7", "8", "9">>
IsDigit(c) == \E d \in 0..9 : DigitChars[d + 1] = c
DigitVal(c) == CHOOSE d \in 0..9 : DigitChars[d + 1] = c

\* str(n) of an integer n >= 0
RECURSIVE Digits(_)
Digits(n) ==
    IF n < 10 THEN <<DigitChars[n + 1]>>
    ELSE Digits(n \div 10) \o <<DigitChars[(n % 10) + 1]>>

\* series.astype(str) on one cell
AsStr(cell) ==
    CASE cell.t = "num" -> Digits(cell.n)
      [] cell.t = "txt" -> cell.s
      [] OTHER -> <<"n", "a", "n">>

\* str.replace(from, to, regex=False): every occurrence, left to right
RECURSIVE ReplaceAll(_, _, _)
ReplaceAll(s, from, to) ==
    IF Len(s) < Len(from) THEN s
    ELSE IF SubSeq(s, 1, Len(from)) = from
         THEN to \o ReplaceAll(SubSeq(s, Len(from) + 1, Len(s)), from, to)
         ELSE <<Head(s)>> \o ReplaceAll(Tail(s), from, to)

\* replacements (lines 184-188), in the order of the dict
Replacements ==
    << << <<"e", "n", "e">>, <<"j", "a", "n">> >>,
       << <<"f", "e", "b">>, <<"f", "e", "b">> >>,
       << <<"m", "a", "r">>, <<"m", "a", "r">> >>,
       << <<"a", "b", "r">>, <<"a", "p", "r">> >>,
       << <<"m", "a", "y">>, <<"m", "a", "y">> >>,
       << <<"j", "u", "n">>, <<"j", "u", "n">> >>,
       << <<"j", "u", "l">>, <<"j", "u", "l">> >>,
       << <<"a", "g", "o">>, <<"a", "u", "g">> >>,
       << <<"s", "e", "p">>, <<"s", "e", "p">> >>,
       << <<"o", "c", "t">>, <<"o", "c", "t">> >>,
       << <<"n", "o", "v">>, <<"n", "o", "v">> >>,
       << <<"d", "i", "c">>, <<"d", "e", "c">> >> >>

\* for esp, eng in replacements.items(): s_str = s_str.str.replace(esp, eng)
RECURSIVE TranslateFrom(_, _)
TranslateFrom(s, k) ==
    IF k > Len(Replacements) THEN s
    ELSE TranslateFrom(ReplaceAll(s, Replacements[k][1], Replacements[k][2]), k + 1)

Translate(s) == TranslateFrom(s, 1)

\* The English abbreviations of the months, which the parser of pandas knows.
IsMonthAbbr(a) == \E k \in 1..Len(Replacements) : Replacements[k][2] = a
MonthOfAbbr(a) == CHOOSE k \in 1..Len(Replacements) : Replacements[k][2] = a

\* s reads "mon-yy", mon an English abbreviation.
IsMonYy(s) ==
    /\ Len(s) = 6 /\ s[4] = "-"
    /\ IsMonthAbbr(SubSeq(s, 1, 3))
    /\ IsDigit(s[5]) /\ IsDigit(s[6])

\* The first day of the month "mon-yy" names, yy a year of this century.
MonYyDate(s) ==
    Date(2000 + 10 * DigitVal(s[5]) + DigitVal(s[6]), MonthOfAbbr(SubSeq(s, 1, 3)), 1)

\* s reads as a year of four digits.
IsYear(s) == Len(s) = 4 /\ \A i \in 1..4 : IsDigit(s[i])

YearDate(s) ==
    Date(1000 * DigitVal(s[1]) + 100 * DigitVal(s[2]) + 10 * DigitVal(s[3])
            + DigitVal(s[4]), 1, 1)

\* pd.to_datetime(s_str, errors="coerce") on one string (line 191): what the
\* parser of pandas can give.  A year of four digits is its first of January.
\* "mon-yy" is read by dateutil, which takes the number for the year or for a
\* day of a year it does not know, and then the result is NaT: both outcomes
\* are kept.  Any other string of the cells is no date.
ToDatetime(s) ==
    IF IsMonYy(s) THEN {NaT, MonYyDate(s)}
    ELSE IF IsYear(s) THEN {YearDate(s)}
    ELSE {NaT}

\* dates_from_str of one cell (lines 183-191): the values it can take
DateFromStr(cell) == ToDatetime(Translate(Lower(Strip(AsStr(cell)))))

\* The mutant of FixExcelSerialDate that prefers the date read from the text.
FixPrefersText(cell, from_str) ==
    IF from_str # NaT THEN from_str ELSE DateFromNum(cell)

\* _fix_excel_serial_dates(series), on one cell: dates_from_num.fillna(dates_from_str)
FixExcelSerialDate(cell, from_str) ==
    IF DateFromNum(cell) # NaT THEN DateFromNum(cell) ELSE from_str

\* The mutant of MonthStart that keeps the day of the month.
MonthStartKeepsDay(ts) == ts

\* s.dt.to_period("M").dt.to_timestamp() on one value
MonthStart(ts) == IF ts = NaT THEN NaT ELSE Date(ts.y, ts.m, 1)

\* The elements of a tuple that satisfy Test, in their order.
Filter(s, Test(_)) ==
    LET keep == Ascending({i \in 1..Len(s) : Test(s[i])})
    IN  [k \in 1..Len(keep) |-> s[keep[k]]]

\* The mutant of NormMes that keeps one row per month, the first.
NormMesMergesMonths(rows) ==
    LET keep == Ascending({i \in 1..Len(rows) :
                    /\ rows[i].fecha # NaT
                    /\ \A j \in 1..(i - 1) :
                          MonthStart(rows[j].fecha) # MonthStart(rows[i].fecha)})
    IN  [k \in 1..Len(keep) |->
            [fecha |-> MonthStart(rows[keep[k]].fecha), val |-> rows[keep[k]].val]]

\* The mutant of NormMes without df.dropna(subset=["fecha"]).
NormMesKeepsNaT(rows) ==
    [i \in 1..Len(rows) |-> [fecha |-> MonthStart(rows[i].fecha), val |-> rows[i].val]]

\* _norm_mes(df, "fecha")
NormMes(rows) ==
    LET floored == [i \in 1..Len(rows) |->
                       [fecha |-> MonthStart(rows[i].fecha), val |-> rows[i].val]]
        HasDate(r) == r.fecha # NaT
    IN  Filter(floored, HasDate)

\* out["fecha"] = _fix_excel_serial_dates(_pick_best_series(df[fecha_col]))
\* and one metric column beside it
OutOf(rows, from_str) ==
    [i \in 1..Len(rows) |->
        [fecha |-> FixExcelSerialDate(rows[i].fecha, from_str[i]), val |-> rows[i].val]]

\* A row of the table read, with what pd.to_datetime gives for its date cell.
SourceRows ==
    UNION {[fecha : {c}, val : Values, from_str : DateFromStr(c)] : c \in DateCells}

InitSeries ==
    /\ \E rows \in SeqsUpTo(SourceRows, MaxSrcRows) :
          /\ src = [i \in 1..Len(rows) |-> [fecha |-> rows[i].fecha, val |-> rows[i].val]]
          /\ dates_from_str = [i \in 1..Len(rows) |-> rows[i].from_str]
    /\ seriesPc = "call"
    /\ series = <<>>
    /\ SniffIdle /\ ReaderIdle /\ PromoIdle /\ NumIdle /\ MapIdle

\* parse_desempleo, lines 716 and 769: the series that is written to the CSV
BuildSeries ==
    /\ seriesPc = "call"
    /\ series' = NormMes(OutOf(src, dates_from_str))
    /\ seriesPc' = "done"
    /\ UNCHANGED <<src, dates_from_str, sniffVars, readerVars, promoVars, numVars, mapVars>>

NextSeries == BuildSeries

SpecSeries == InitSeries /\ [][NextSeries]_vars

\* Months in calendar order.
MonthLeq(a, b) == a.y < b.y \/ (a.y = b.y /\ a.m <= b.m)

\* The date _fix_excel_serial_dates gives row i of the source.
Resolved(i) == FixExcelSerialDate(src[i].fecha, dates_from_str[i])

\* The rows of the source whose date cell gives a date.
Resolvable == Ascending({i \in 1..Len(src) : Resolved(i) # NaT})

\* C10 as stated: the series holds no row without a date and its rows are in
\* ascending order of month, whatever the order of the source rows.
C10_NoNullDateAndSorted ==
    seriesPc = "done" =>
        /\ \A i \in 1..Len(series) : series[i].fecha # NaT
        /\ \A i, j \in 1..Len(series) :
              i < j => MonthLeq(series[i].fecha, series[j].fecha)

\* C10 amended: the series holds no row without a date, and its rows are the
\* source rows with a resolvable date in the order of the source.
C10_NoNullDateSourceOrder ==
    seriesPc = "done" =>
        /\ \A i \in 1..Len(series) : series[i].fecha # NaT
        /\ Len(series) = Len(Resolvable)
        /\ \A k \in 1..Len(series) :
              /\ series[k].val = src[Resolvable[k]].val
              /\ series[k].fecha.d = 1
              /\ src[Resolvable[k]].fecha.t = "num" /\ src[Resolvable[k]].fecha.n > 45000 =>
                    /\ series[k].fecha.y = 2023
                    /\ series[k].fecha.m =
                          (IF src[Resolvable[k]].fecha.n = 45170 THEN 9 ELSE 8)

\* C10's case: a row without a date between a row of September and a later row
\* of August; the series holds the two dated rows, September first.
C10_Witness ==
    /\ seriesPc = "done"
    /\ Len(src) = 3
    /\ src[1].fecha = NumDate(45170)
    /\ src[2].fecha.t # "num"
    /\ src[3].fecha = NumDate(45139)
    /\ Len(series) = 2
    /\ series[1].fecha = Date(2023, 9, 1)
    /\ series[2].fecha = Date(2023, 8, 1)

\* The number of rows with a date among the first i rows of the source.
DatedUpTo(i) == Cardinality({r \in 1..i : Resolved(r) # NaT})

\* C29: rows with the same date are not merged and the rows stay aligned: the
\* series has as many rows as the source has rows with a resolvable date, two
\* source rows of the same month give two rows of the series, and the metric
\* value of a row of the series comes from the source row of its date.
C29_NoMergeRowsAligned ==
    seriesPc = "done" =>
        /\ Len(series) = DatedUpTo(Len(src))
        /\ \A i \in 1..Len(src) :
              Resolved(i) # NaT =>
                 /\ DatedUpTo(i) \in 1..Len(series)
                 /\ series[DatedUpTo(i)].val = src[i].val
                 /\ series[DatedUpTo(i)].fecha.y = Resolved(i).y
                 /\ series[DatedUpTo(i)].fecha.m = Resolved(i).m
        /\ \A i, j \in 1..Len(src) :
              ( /\ i < j /\ Resolved(i) # NaT /\ Resolved(j) # NaT
                /\ Resolved(i).y = Resolved(j).y /\ Resolved(i).m = Resolved(j).m )
              => /\ DatedUpTo(i) < DatedUpTo(j)
                 /\ series[DatedUpTo(i)].fecha = series[DatedUpTo(j)].fecha

\* C29's case: two rows of August 2023 with different values, a row without
\* a date between them; the series holds both, each with its value.
C29_Witness ==
    /\ seriesPc = "done"
    /\ Len(src) = 3
    /\ src[1].fecha = NumDate(45139) /\ src[1].val = 2
    /\ src[2].fecha = NanDate
    /\ src[3].fecha = NumDate(45153) /\ src[3].val = 1
    /\ series = <<[fecha |-> Date(2023, 8, 1), val |-> 2],
                  [fecha |-> Date(2023, 8, 1), val |-> 1]>>

\* C11: every date of the series is the first day of a month, the month and
\* the year of the date its source row was parsed to, whatever the day of it.
C11_FirstOfMonth ==
    seriesPc = "done" /\ Len(series) = Len(Resolvable) =>
        \A k \in 1..Len(series) :
            /\ series[k].fecha.d = 1
            /\ series[k].fecha.m = Resolved(Resolvable[k]).m
            /\ series[k].fecha.y = Resolved(Resolvable[k]).y

\* C11's case: the day serial of 2023-08-15 gives 2023-08-01.
C11_Witness ==
    /\ seriesPc = "done"
    /\ Len(src) = 1 /\ src[1].fecha = NumDate(45153)
    /\ Len(series) = 1 /\ series[1].fecha = Date(2023, 8, 1)

\* The cell of row i is a number, which always is the day serial of a date here.
SerialOk(i) == src[i].fecha.t = "num"

\* C12: the date of a row is the date of its day serial when its cell is a
\* number, else the date read from its text when there is one; the rows with
\* neither are the rows the series drops.
C12_SerialThenText ==
    seriesPc = "done" =>
        LET rowsKept == Ascending({i \in 1..Len(src) :
                                      SerialOk(i) \/ dates_from_str[i] # NaT})
        IN  /\ Len(series) = Len(rowsKept)
            /\ \A k \in 1..Len(rowsKept) :
                  LET i == rowsKept[k]
                      expected ==
                          IF SerialOk(i)
                          THEN CivilFromDays(src[i].fecha.n + OriginDays)
                          ELSE dates_from_str[i]
                  IN  /\ series[k].val = src[i].val
                      /\ series[k].fecha.y = expected.y
                      /\ series[k].fecha.m = expected.m

\* C12's case: the number 2023, which is a day serial of 1905 and a year for
\* the text parser, a text that reads as August 2023, and a text that is no
\* date: the series holds July 1905 and August 2023.
C12_Witness ==
    /\ seriesPc = "done"
    /\ Len(src) = 3
    /\ src[1].fecha = NumDate(2023) /\ dates_from_str[1] = Date(2023, 1, 1)
    /\ src[2].fecha.t = "txt" /\ dates_from_str[2] = Date(2023, 8, 1)
    /\ src[3].fecha.t = "txt" /\ dates_from_str[3] = NaT
    /\ Len(series) = 2
    /\ series[1].fecha = Date(1905, 7, 1)
    /\ series[2].fecha = Date(2023, 8, 1)

MaxTblCols == 2
MaxTblRows == 2

\* A table as the reader looks at it: df.shape[1], df.dropna(how="all").shape[0]
\* and the number of labels _looks_unnamed_columns counts.  A table without
\* columns has no row that is not empty.
RawTables ==
    {t \in [cols : 0..MaxTblCols, rows : 0..MaxTblRows, unnamed : 0..MaxTblCols] :
        t.unnamed <= t.cols /\ (t.cols = 0 => t.rows = 0)}

\* The tables left by df.loc[:, df.notna().mean() > 0.0]: every column holds a
\* value, so a table with a column has a row that is not empty.
CleanTables == {t \in RawTables : t.cols >= 1 => t.rows >= 1}

\* _looks_unnamed_columns(df)
LooksUnnamed(df) == OverThreshold(df.unnamed, df.cols)

\* What _promote_row_with_fecha_as_header can return for df: None, or a clean
\* table of the rows after the marker row and of columns of df.
PromotionsOf(df) ==
    {NoTable} \cup
    {p \in CleanTables : p.cols <= df.cols /\ p.rows < df.rows}

\* if _looks_unnamed_columns(df): p = _promote...(df); if p is not None: df = p
\* (lines 407-410, 457-460, 486-489); p is the promotion of df, were it asked for
AfterPromotion(df, p) == IF LooksUnnamed(df) /\ p # NoTable THEN p ELSE df

\* The kinds the reader is called with.
Kinds == {"xlsx", "xls", "html", "text", "unknown", None, "pdf"}

\* xls.sheet_names of the workbooks read.
Workbooks ==
    {<<<<"H", "o", "j", "a", "1">>>>, <<<<"H", "o", "j", "a", "1">>, <<"A", "L", "T", "A", "S">>>>, <<<<"P", "r", "o", "m", "e", "d", "i", "o">>, <<"E", "m", "i", "s", "i", "o", "n", " ", "2", "0", "2", "4">>>>,
     <<<<"R", "e", "s", "u", "m", "e", "n">>, <<"H", "o", "j", "a", "1">>, <<"E", "m", "i", "s", "i", "oacute", "n">>>>}

Sheets == {NoSheet, SheetName(<<"H", "o", "j", "a", "1">>), SheetIndex(1)}

Hints == {<<>>, <<7>>, <<8>>}

\* The elements of a tuple.
Range(s) == {s[i] : i \in 1..Len(s)}

\* _sheet_score(name), lines 369-377
SheetScore(name) ==
    LET low == Lower(name)
    IN  IF Contains(low, <<"a", "l", "t", "a", "s">>) THEN 0
        ELSE IF Contains(low, <<"e", "m", "i", "s", "i", "oacute", "n">>) \/ Contains(low, <<"e", "m", "i", "s", "i", "o", "n">>) THEN 1
        ELSE IF Contains(low, <<"p", "r", "o", "m", "e", "d", "i", "o">>) THEN 2
        ELSE 3

\* The mutant of SortedByScore that leaves the sheets in workbook order.
NotSorted(names) == names

\* sorted(names, key=_sheet_score): a stable sort
RECURSIVE SortedByScore(_)
SortedByScore(names) ==
    IF names = <<>> THEN <<>>
    ELSE LET i == CHOOSE i \in 1..Len(names) :
                    \A k \in 1..Len(names) :
                        \/ SheetScore(names[i]) < SheetScore(names[k])
                        \/ (SheetScore(names[i]) = SheetScore(names[k]) /\ i <= k)
         IN  <<names[i]>> \o
             SortedByScore(SubSeq(names, 1, i - 1) \o SubSeq(names, i + 1, Len(names)))

\* sorted(...) of the workbooks read, computed once.
SortedSheets == [names \in Workbooks |-> SortedByScore(names)]

\* sheets_to_try, lines 363-379
SheetsToTry(sel, names) ==
    IF sel # NoSheet THEN <<sel>>
    ELSE LET sorted == IF names \in Workbooks THEN SortedSheets[names]
                       ELSE SortedByScore(names)
         IN  [i \in 1..Len(sorted) |-> SheetName(sorted[i])]

\* The sheet exists in the workbook.
SheetExists(s, names) ==
    \/ s.t = "name" /\ s.name \in Range(names)
    \/ s.t = "idx" /\ s.idx >= 0 /\ s.idx < Len(names)

\* (6, 7, 5, 4, 0, 1, 2, 3), line 384
HeaderFallback == <<6, 7, 5, 4, 0, 1, 2, 3>>

\* The tuple without the later copies of its elements (lines 386-391).
RECURSIVE Dedup(_)
Dedup(s) ==
    IF s = <<>> THEN <<>>
    ELSE LET front == Dedup(SubSeq(s, 1, Len(s) - 1))
         IN  IF s[Len(s)] \in Range(front) THEN front ELSE Append(front, s[Len(s)])

\* The mutant of HeadersToTry that keeps the second copy of the hint.
HeadersWithRepeats(h) == h \o HeaderFallback

\* headers_a_probar_final, lines 381-391
HeadersToTry(h) == Dedup(h \o HeaderFallback)

\* header_candidates of _try_xlrd_manual, line 262
XlrdHeaders == <<7, 6, 5, 4, 0, 1, 2, 3>>

\* The separators of _try_read_csv, line 496
Separators == <<";", ",", "tab">>

\* The mutant of ScoreGt that compares the columns only.
ScoreGtColsOnly(a, b) == a[1] > b[1]

\* score > best_score on tuples (line 423)
ScoreGt(a, b) == a[1] > b[1] \/ (a[1] = b[1] /\ a[2] > b[2])

\* The mutant of ExcelUsable that accepts a table of one column.
ExcelUsableAnyWidth(df) == df.cols >= 1 /\ df.rows > 1

\* if cols_ok >= 2 and rows_ok > 1 (line 416)
ExcelUsable(df) == df.cols >= 2 /\ df.rows > 1

\* The mutant of WeakFloor that asks for a row only.
WeakFloorRowsOnly(b) == b.df # NoTable /\ b.score[2] > 0

\* if best_df is not None and best_score[0] >= 2 and best_score[1] > 0 (line 432)
WeakFloor(b) == b.df # NoTable /\ b.score[1] >= 2 /\ b.score[2] > 0

\* if data.dropna(how="all").shape[0] > 1 and data.shape[1] >= 2 (lines 274, 278)
XlrdUseful(df) == df.rows > 1 /\ df.cols >= 2

\* The mutant of HtmlRejects that tests the rows only.
HtmlRejectsRowsOnly(df) == df.rows <= 1

\* if df.dropna(how="all").shape[0] <= 1 or df.shape[1] < 2 (lines 461, 490)
HtmlRejects(df) == df.rows <= 1 \/ df.cols < 2

\* if df.dropna(how="all").shape[0] > 1 and df.shape[1] >= 2 (line 500)
CsvAccepts(df) == df.rows > 1 /\ df.cols >= 2

\* The tables a strategy after the native read can return.
Yields == {t \in RawTables : t.rows > 1 /\ t.cols >= 2}

\* The mutant of Chain that reads a hypertext document as a workbook first.
ChainExcelFirst(k) ==
    IF k \in {"xlsx", "xls", "html"}
    THEN <<"excel", "xlrd", "win32", "html", "bs4", "csv">>
    ELSE IF k \in {None, "unknown"} THEN <<"html", "bs4", "csv">>
    ELSE IF k = "text" THEN <<"csv">>
    ELSE <<>>

\* The mutant of Chain that tries the hypertext read before the manual read.
ChainHtmlEarly(k) ==
    IF k \in {"xlsx", "xls"} THEN <<"excel", "html", "xlrd", "win32", "bs4", "csv">>
    ELSE IF k \in {"html", None, "unknown"} THEN <<"html", "bs4", "csv">>
    ELSE IF k = "text" THEN <<"csv">>
    ELSE <<>>

\* The strategies of the branch of kind k, in the order of the branch
\* (lines 507-538, 549-559, 571-574, 587-597).
Chain(k) ==
    IF k \in {"xlsx", "xls"} THEN <<"excel", "xlrd", "win32", "html", "bs4", "csv">>
    ELSE IF k \in {"html", None, "unknown"} THEN <<"html", "bs4", "csv">>
    ELSE IF k = "text" THEN <<"csv">>
    ELSE <<>>

\* The mutant of Exhausted that returns None for a kind without branch.
ExhaustedReturnsNone(k) ==
    IF k \in {"xlsx", "xls"}
    THEN [t |-> "error", type |-> "RuntimeError",
          args |-> <<"No pude leer el contenido ni como Excel ni como HTML/CSV">>]
    ELSE IF k = "html"
    THEN [t |-> "error", type |-> "RuntimeError", args |-> <<"HTML no legible como tabla">>]
    ELSE IF k = "text"
    THEN [t |-> "error", type |-> "RuntimeError",
          args |-> <<"Texto plano sin formato tabular">>]
    ELSE [t |-> "returned", df |-> NoTable]

\* What the reader raises when its branch is exhausted (lines 547, 569, 583, 600).
Exhausted(k) ==
    IF k \in {"xlsx", "xls"}
    THEN [t |-> "error", type |-> "RuntimeError",
          args |-> <<"No pude leer el contenido ni como Excel ni como HTML/CSV">>]
    ELSE IF k = "html"
    THEN [t |-> "error", type |-> "RuntimeError", args |-> <<"HTML no legible como tabla">>]
    ELSE IF k = "text"
    THEN [t |-> "error", type |-> "RuntimeError",
          args |-> <<"Texto plano sin formato tabular">>]
    ELSE [t |-> "error", type |-> "ValueError",
          args |-> <<"Formato desconocido o no soportado">>]

\* return df: the reader returns the table df the strategy `via` yielded
Returned(df, via, how) == [t |-> "returned", df |-> df, via |-> via, how |-> how]

\* pd.DataFrame(data, columns=...) of _try_bs4_table raises when a row of the
\* table has more cells than its first row (line 485); nothing catches it.
Bs4Crash ==
    [t |-> "error", type |-> "ValueError", args |-> <<"columns passed, passed data had more">>]

\* The place where a strategy starts.
Entry(s) ==
    CASE s = "excel" -> "excel_open"
      [] s = "xlrd" -> "xlrd_open"
      [] OTHER -> s

InitReader ==
    /\ kind \in Kinds
    /\ workbook \in IF kind \in {"xlsx", "xls"} THEN Workbooks ELSE {<<>>}
    /\ sheet \in Sheets
    /\ hint \in Hints
    /\ pc = "start"
    /\ tried = <<>> /\ logged = <<>>
    /\ sheetIdx = 0 /\ hdrIdx = 0 /\ attempts = <<>>
    /\ best = NoBest /\ topScore = <<-1, -1>>
    /\ result = NoResult /\ rest = NoTable
    /\ SniffIdle /\ PromoIdle /\ SeriesIdle /\ NumIdle /\ MapIdle

\* The position of strategy s in the branch of the kind read.
PlaceOf(s) == CHOOSE i \in 1..Len(Chain(kind)) : Chain(kind)[i] = s

\* Strategy s yielded nothing: the next strategy of the branch starts, or the
\* reader raises at the end of the branch.
Fails(s) ==
    /\ logged' = Append(logged, s)
    /\ IF PlaceOf(s) < Len(Chain(kind))
       THEN /\ pc' = Entry(Chain(kind)[PlaceOf(s) + 1])
            /\ tried' = Append(tried, Chain(kind)[PlaceOf(s) + 1])
            /\ result' = result
       ELSE /\ pc' = "done"
            /\ tried' = tried
            /\ result' = Exhausted(kind)
    /\ sheetIdx' = 0 /\ hdrIdx' = 1

\* return df
Returns(df, via, how) ==
    /\ pc' = "done"
    /\ result' = Returned(df, via, how)
    /\ UNCHANGED <<tried, logged, sheetIdx, hdrIdx>>

\* Lines 507, 549, 571, 587, 600: the branch of the kind is entered.
Dispatch ==
    /\ pc = "start"
    /\ IF Chain(kind) = <<>>
       THEN /\ pc' = "done"
            /\ result' = Exhausted(kind)
            /\ tried' = tried
       ELSE /\ pc' = Entry(Chain(kind)[1])
            /\ result' = result
            /\ tried' = <<Chain(kind)[1]>>
    /\ hdrIdx' = 1
    /\ UNCHANGED <<kind, workbook, sheet, hint, logged, sheetIdx, attempts, best,
                   topScore, rest>>
    /\ UNCHANGED <<sniffVars, promoVars, seriesVars, numVars, mapVars>>

\* _try_read_excel, lines 356-396: pd.ExcelFile opens the workbook or raises.
ExcelOpen ==
    /\ pc = "excel_open"
    /\ \E opens \in BOOLEAN :
          IF opens
          THEN /\ pc' = "excel_read"
               /\ sheetIdx' = 1 /\ hdrIdx' = 1
               /\ UNCHANGED <<tried, logged, result>>
          ELSE Fails("excel")
    /\ best' = NoBest /\ topScore' = <<-1, -1>>
    /\ UNCHANGED <<kind, workbook, sheet, hint, attempts, rest>>
    /\ UNCHANGED <<sniffVars, promoVars, seriesVars, numVars, mapVars>>

\* The next (sheet, header) pair of the loops of lines 397-398, or their end.
ExcelContinues ==
    /\ IF hdrIdx < Len(HeadersToTry(hint))
       THEN pc' = "excel_read" /\ sheetIdx' = sheetIdx /\ hdrIdx' = hdrIdx + 1
       ELSE IF sheetIdx < Len(SheetsToTry(sheet, workbook))
       THEN pc' = "excel_read" /\ sheetIdx' = sheetIdx + 1 /\ hdrIdx' = 1
       ELSE pc' = "excel_end" /\ sheetIdx' = sheetIdx /\ hdrIdx' = hdrIdx
    /\ UNCHANGED <<tried, logged, result>>

\* _try_read_excel, lines 399-429: one (sheet, header) pair is read.
ExcelAttempt ==
    /\ pc = "excel_read"
    /\ LET s == SheetsToTry(sheet, workbook)[sheetIdx]
           h == HeadersToTry(hint)[hdrIdx]
       IN  /\ attempts' = Append(attempts, <<s, h>>)
           /\ \/ \* pd.read_excel raises: except Exception ... continue
                 /\ ExcelContinues
                 /\ UNCHANGED <<best, topScore>>
              \/ \* pd.read_excel returns a table
                 /\ SheetExists(s, workbook)
                 /\ \E df \in CleanTables :
                    \E p \in (IF LooksUnnamed(df) THEN PromotionsOf(df) ELSE {NoTable}) :
                       LET d     == AfterPromotion(df, p)
                           score == <<d.cols, d.rows>>
                       IN  IF ExcelUsable(d)
                           THEN /\ Returns(d, "excel", "usable")
                                /\ UNCHANGED <<best, topScore>>
                           ELSE /\ best' = IF ScoreGt(score, best.score)
                                           THEN [df |-> d, score |-> score, sheet |-> s]
                                           ELSE best
                                /\ topScore' =
                                      <<Max(score[1], topScore[1]),
                                        IF score[1] > topScore[1] THEN score[2]
                                        ELSE IF score[1] < topScore[1] THEN topScore[2]
                                        ELSE Max(score[2], topScore[2])>>
                                /\ ExcelContinues
    /\ UNCHANGED <<kind, workbook, sheet, hint, rest>>
    /\ UNCHANGED <<sniffVars, promoVars, seriesVars, numVars, mapVars>>

\* _try_read_excel, lines 431-441, and its caller, lines 508-510: the best
\* candidate is returned if it clears the floor.  The rest of the chain is not
\* run; `rest` is what it would have returned on this document.
ExcelEnd ==
    /\ pc = "excel_end"
    /\ IF WeakFloor(best)
       THEN /\ Returns(best.df, "excel", "weak")
            /\ rest' \in {NoTable} \cup Yields
       ELSE /\ Fails("excel")
            /\ rest' = rest
    /\ UNCHANGED <<kind, workbook, sheet, hint, attempts, best, topScore>>
    /\ UNCHANGED <<sniffVars, promoVars, seriesVars, numVars, mapVars>>

\* _try_xlrd_manual, lines 227-259: the workbook and the sheet are opened and
\* the cells read; a failure returns None, an exception is caught at line 517.
XlrdOpen ==
    /\ pc = "xlrd_open"
    /\ \E opens \in BOOLEAN :
          IF opens
          THEN /\ pc' = "xlrd_read"
               /\ hdrIdx' = 1 /\ sheetIdx' = sheetIdx
               /\ UNCHANGED <<tried, logged, result>>
          ELSE Fails("xlrd")
    /\ UNCHANGED <<kind, workbook, sheet, hint, attempts, best, topScore, rest>>
    /\ UNCHANGED <<sniffVars, promoVars, seriesVars, numVars, mapVars>>

\* The next header candidate of the loop of line 264, or the end of the manual
\* read without a table.
XlrdContinues ==
    IF hdrIdx < Len(XlrdHeaders)
    THEN /\ pc' = "xlrd_read" /\ hdrIdx' = hdrIdx + 1 /\ sheetIdx' = sheetIdx
         /\ UNCHANGED <<tried, logged, result>>
    ELSE Fails("xlrd")

\* _try_xlrd_manual, lines 264-286, and its caller, lines 514-516.
XlrdAttempt ==
    /\ pc = "xlrd_read"
    /\ \/ \* the row lies beyond the sheet, or the candidate raises
          XlrdContinues
       \/ \E data \in CleanTables :
          \E p \in (IF LooksUnnamed(data) THEN PromotionsOf(data) ELSE {NoTable}) :
             IF XlrdUseful(data)
             THEN LET df == IF LooksUnnamed(data) /\ p # NoTable /\ XlrdUseful(p)
                            THEN p ELSE data
                  IN  IF df.cols >= 2
                      THEN Returns(df, "xlrd", "usable")
                      ELSE Fails("xlrd")
             ELSE XlrdContinues
    /\ UNCHANGED <<kind, workbook, sheet, hint, attempts, best, topScore, rest>>
    /\ UNCHANGED <<sniffVars, promoVars, seriesVars, numVars, mapVars>>

\* _try_win32_excel_export, lines 306-314: returns None on every path.
Win32 ==
    /\ pc = "win32"
    /\ Fails("win32")
    /\ UNCHANGED <<kind, workbook, sheet, hint, attempts, best, topScore, rest>>
    /\ UNCHANGED <<sniffVars, promoVars, seriesVars, numVars, mapVars>>

\* _try_read_html, lines 446-463.
Html ==
    /\ pc = "html"
    /\ \/ \* read_html raises or finds no table
          Fails("html")
       \/ \E df \in RawTables :
          \E p \in (IF LooksUnnamed(df) THEN PromotionsOf(df) ELSE {NoTable}) :
             LET d == AfterPromotion(df, p)
             IN  IF HtmlRejects(d) THEN Fails("html") ELSE Returns(d, "html", "usable")
    /\ UNCHANGED <<kind, workbook, sheet, hint, attempts, best, topScore, rest>>
    /\ UNCHANGED <<sniffVars, promoVars, seriesVars, numVars, mapVars>>

\* _try_bs4_table, lines 467-492.
Bs4 ==
    /\ pc = "bs4"
    /\ \/ \* no <table>, or no row with text
          Fails("bs4")
       \/ \* a row with more cells than the first: pd.DataFrame raises
          /\ pc' = "done"
          /\ result' = Bs4Crash
          /\ UNCHANGED <<tried, logged, sheetIdx, hdrIdx>>
       \/ \E df \in RawTables :
          \E p \in (IF LooksUnnamed(df) THEN PromotionsOf(df) ELSE {NoTable}) :
             LET d == AfterPromotion(df, p)
             IN  IF HtmlRejects(d) THEN Fails("bs4") ELSE Returns(d, "bs4", "usable")
    /\ UNCHANGED <<kind, workbook, sheet, hint, attempts, best, topScore, rest>>
    /\ UNCHANGED <<sniffVars, promoVars, seriesVars, numVars, mapVars>>

\* The next separator of the loop of line 496, or the end without a table.
CsvContinues ==
    IF hdrIdx < Len(Separators)
    THEN /\ pc' = "csv" /\ hdrIdx' = hdrIdx + 1 /\ sheetIdx' = sheetIdx
         /\ UNCHANGED <<tried, logged, result>>
    ELSE Fails("csv")

\* _try_read_csv, lines 496-504: one separator is tried.
Csv ==
    /\ pc = "csv"
    /\ \/ \* pd.read_csv raises: except Exception: pass
          CsvContinues
       \/ \E df \in RawTables :
             IF CsvAccepts(df) THEN Returns(df, "csv", "usable") ELSE CsvContinues
    /\ UNCHANGED <<kind, workbook, sheet, hint, attempts, best, topScore, rest>>
    /\ UNCHANGED <<sniffVars, promoVars, seriesVars, numVars, mapVars>>

NextReader ==
    \/ Dispatch
    \/ ExcelOpen
    \/ ExcelAttempt
    \/ ExcelEnd
    \/ XlrdOpen
    \/ XlrdAttempt
    \/ Win32
    \/ Html
    \/ Bs4
    \/ Csv

SpecReader == InitReader /\ [][NextReader]_vars

SpreadsheetStrategies == {"excel", "xlrd", "win32"}
TextStrategies == {"html", "bs4", "csv"}

\* The reader returned the table of its native read, from the strict test
\* ("usable") or as the best weak candidate ("weak").
FromExcel(how) ==
    result.t = "returned" /\ result.via = "excel" /\ result.how = how

\* C1: whatever the kind and the outcomes of the strategies, a table the
\* reader returns has at least 2 columns.
C1_AtLeastTwoColumns ==
    result.t = "returned" => result.df # NoTable /\ result.df.cols >= 2

\* C1's case: the weak candidate of the native read is returned.
C1_Witness ==
    /\ pc = "done"
    /\ FromExcel("weak")
    /\ result.df.cols = 2 /\ result.df.rows = 1

\* C2: for a hypertext or text document no spreadsheet strategy is ever
\* entered; for a spreadsheet a hypertext or text strategy is entered only
\* after the three spreadsheet strategies were entered and yielded nothing.
C2_StrategyGating ==
    /\ kind \in {"html", "text"} => Range(tried) \cap SpreadsheetStrategies = {}
    /\ kind \in {"xlsx", "xls"} =>
          \A i \in 1..Len(tried) :
              tried[i] \in TextStrategies =>
                  /\ SpreadsheetStrategies \subseteq {tried[j] : j \in 1..(i - 1)}
                  /\ SpreadsheetStrategies \subseteq Range(logged)

\* C2's case: the reader of a spreadsheet has come to the delimited-text read.
C2_Witness ==
    /\ kind = "xlsx"
    /\ pc = "csv"
    /\ tried = <<"excel", "xlrd", "win32", "html", "bs4", "csv">>

FixedOrder == <<"excel", "xlrd", "win32", "html", "bs4", "csv">>

Rank(s) == CHOOSE i \in 1..Len(FixedOrder) : FixedOrder[i] = s

\* C3: the strategies are entered in the fixed order, each after all the
\* strategies entered before it yielded nothing; the table the reader returns
\* is the one of the last strategy entered, and the reader is done with it.
C3_OrderAndShortCircuit ==
    /\ \A i, j \in 1..Len(tried) : i < j => Rank(tried[i]) < Rank(tried[j])
    /\ Len(logged) <= Len(tried)
    /\ \A i \in 1..Len(logged) : logged[i] = tried[i]
    /\ Len(tried) > 0 => Len(logged) >= Len(tried) - 1
    /\ result.t = "returned" =>
          /\ pc = "done"
          /\ Len(logged) = Len(tried) - 1
          /\ result.via = tried[Len(tried)]

\* C3's case: the hypertext read of a spreadsheet yields the table; neither the
\* DOM reconstruction nor the delimited-text read is entered.
C3_Witness ==
    /\ kind = "xls"
    /\ result.t = "returned" /\ result.via = "html"
    /\ tried = <<"excel", "xlrd", "win32", "html">>
    /\ logged = <<"excel", "xlrd", "win32">>

\* Every strategy of the branch of the kind was entered and yielded nothing.
ChainExhausted == pc = "done" /\ logged = Chain(kind)

\* C4 as stated: at the end of the chain the reader raises one type of error
\* for every kind, and the error carries a cause for each strategy that failed.
C4_OneErrorTypeWithCauses ==
    ChainExhausted =>
        /\ result.t = "error"
        /\ result.type = Exhausted("xlsx").type
        /\ Len(result.args) = Len(logged)

\* C4 amended: at the end of the chain the reader raises, a RuntimeError for
\* the kinds xlsx, xls, html and text and a ValueError for any other kind, with
\* one message as its only argument; it never returns then, and when it
\* returns it returns a table.
C4_ExhaustionRaises ==
    /\ ChainExhausted =>
          /\ result.t = "error"
          /\ result.type = (IF kind \in {"xlsx", "xls", "html", "text"}
                            THEN "RuntimeError" ELSE "ValueError")
          /\ Len(result.args) = 1
    /\ pc = "done" => result.t \in {"returned", "error"}
    /\ result.t = "returned" => result.df # NoTable

\* C4's case: the three strategies of a document of unknown kind failed.
C4_Witness ==
    /\ kind = "unknown"
    /\ pc = "done"
    /\ logged = <<"html", "bs4", "csv">>
    /\ result.t = "error" /\ result.type = "ValueError"

\* C5 as stated: a table the native read returns from its strict test has at
\* least 2 columns, more than 1 row that is not empty, and labels that are not
\* mostly unnamed.
C5_UsableNotUnnamed ==
    FromExcel("usable") =>
        /\ result.df.cols >= 2
        /\ result.df.rows > 1
        /\ ~LooksUnnamed(result.df)

Score(df) == <<df.cols, df.rows>>

\* C6 as stated: the weak candidate returned has the greatest score of all
\* attempts, at least 2 columns and 1 row, and no later strategy of the chain
\* yields a better table.
C6_WeakOnlyIfNothingBetterLater ==
    FromExcel("weak") =>
        /\ Score(result.df) = topScore
        /\ result.df.cols >= 2 /\ result.df.rows >= 1
        /\ (rest # NoTable => ~ScoreGt(Score(rest), Score(result.df)))

\* C6 amended: the candidate retained has the greatest score of all attempts
\* that returned a table; it is returned at once, no later strategy being
\* entered, if it has at least 2 columns and 1 row; otherwise the native read
\* yields nothing and the chain goes on.
C6_WeakBestClearsFloor ==
    /\ pc = "excel_end" => best.score = topScore
    /\ FromExcel("weak") =>
          /\ Score(result.df) = topScore /\ result.df = best.df
          /\ result.df.cols >= 2 /\ result.df.rows >= 1
          /\ tried = <<"excel">>
    /\ "excel" \in Range(logged) => ~(topScore[1] >= 2 /\ topScore[2] >= 1)

\* C6's case: the weak candidate is returned although the rest of the chain
\* would have yielded a table with a greater score.
C6_Witness ==
    /\ FromExcel("weak")
    /\ Len(attempts) > 1
    /\ rest # NoTable /\ ScoreGt(Score(rest), Score(result.df))

\* The priority the sheets of a workbook are tried by.
Priority(name) ==
    IF Contains(Lower(name), <<"a", "l", "t", "a", "s">>) THEN 0
    ELSE IF Contains(Lower(name), <<"e", "m", "i", "s", "i", "oacute", "n">>) \/ Contains(Lower(name), <<"e", "m", "i", "s", "i", "o", "n">>) THEN 1
    ELSE IF Contains(Lower(name), <<"p", "r", "o", "m", "e", "d", "i", "o">>) THEN 2
    ELSE 3

\* The native read has gone through all its sheets and header rows.
NativeReadEnded == pc = "excel_end" \/ (Len(logged) >= 1 /\ logged[1] = "excel")

C27_HeaderOrderNoRepeat ==
    LET fallback == <<6, 7, 5, 4, 0, 1, 2, 3>>
        expected == IF hint = <<>> THEN fallback
                    ELSE hint \o SelectSeq(fallback, LAMBDA h : h # hint[1])
    IN  /\ \A i, j \in 1..Len(attempts) : i < j => attempts[i] # attempts[j]
        /\ \A i \in 1..Len(attempts) :
              attempts[i][2] = expected[((i - 1) % Len(expected)) + 1]
        /\ \A i \in 1..(Len(attempts) - 1) :
              attempts[i][1] # attempts[i + 1][1] => i % Len(expected) = 0

\* C27 witness: the hint is 7, one of the eight, and the native read went
\* through all the header rows of two sheets.
C27_Witness ==
    /\ hint = <<7>> /\ pc = "excel_end"
    /\ Len(attempts) = 16

\* C28: the reader raises only at the end of its chain: what it raises is
\* one of the four errors of exhaustion, after every strategy of the chain
\* of the kind has been tried and has failed.
C28_OnlyExhaustionRaises ==
    (pc = "done" /\ result.t = "error") =>
        /\ result.args \in {<<"No pude leer el contenido ni como Excel ni como HTML/CSV">>,
                            <<"HTML no legible como tabla">>,
                            <<"Texto plano sin formato tabular">>,
                            <<"Formato desconocido o no soportado">>}
        /\ logged = Chain(kind)

(***************************************************************************)
(*                        NUMERIC NORMALISATION                            *)
(***************************************************************************)

\* Bound of the columns _to_num is applied to: the number of their cells.
MaxColLen == 2

\* A number (-1)^neg * mant / 10^frac without trailing zeros, and NaN.
NaNNum == [t |-> "nan"]
Number(neg, mant, frac) == [t |-> "val", neg |-> neg, mant |-> mant, frac |-> frac]

\* The cells of a metric column, numbers, strings and NaN as in the date
\* column: NaN, the integer 952, "952", "1.234,56", "-1.234,56", "-5", "1.5",
\* "x", a 5 after the minus sign U+2212 and a lone em dash.
NumCells ==
    {NanDate, NumDate(952), TxtDate(<<"9", "5", "2">>), TxtDate(<<"1", ".", "2", "3", "4", ",", "5", "6">>),
     TxtDate(<<"-", "1", ".", "2", "3", "4", ",", "5", "6">>), TxtDate(<<"-", "5">>), TxtDate(<<"1", ".", "5">>), TxtDate(<<"x">>),
     TxtDate(<<"minus", "5">>), TxtDate(<<"emdash">>)}

RECURSIVE Normalise(_)
Normalise(v) ==
    IF v.frac > 0 /\ v.mant % 10 = 0
    THEN Normalise(Number(v.neg, v.mant \div 10, v.frac - 1))
    ELSE v

\* The number a tuple of digits writes.
RECURSIVE DigitsValue(_)
DigitsValue(ds) ==
    IF ds = <<>> THEN 0
    ELSE 10 * DigitsValue(SubSeq(ds, 1, Len(ds) - 1)) + DigitVal(ds[Len(ds)])

\* pd.to_numeric(s, errors="coerce") on one string: an optional sign, digits
\* and at most one decimal point; anything else is NaN.
ParseNumber(s) ==
    LET neg  == s # <<>> /\ Head(s) = "-"
        body == IF neg THEN Tail(s) ELSE s
        dots == {i \in 1..Len(body) : body[i] = "."}
        ok   == /\ Cardinality(dots) <= 1
                /\ \A i \in 1..Len(body) : body[i] = "." \/ IsDigit(body[i])
                /\ \E i \in 1..Len(body) : IsDigit(body[i])
        ds   == SelectSeq(body, LAMBDA c : c # ".")
        frac == IF dots = {} THEN 0 ELSE Len(body) - (CHOOSE i \in dots : TRUE)
    IN  IF ok THEN Normalise(Number(neg, DigitsValue(ds), frac)) ELSE NaNNum

\* pd.to_numeric(series, errors="coerce") on one cell
ToNumeric(cell) ==
    CASE cell.t = "num" -> Number(FALSE, cell.n, 0)
      [] cell.t = "txt" -> ParseNumber(cell.s)
      [] OTHER -> NaNNum

\* The characters of r"—|−|–|-" (line 124): em dash, minus sign,
\* en dash and hyphen.
Dashes == {"emdash", "minus", "endash", "-"}

\* The mutant of Clean that deletes the dashes but keeps the hyphen.
CleanKeepsHyphen(s) ==
    LET a == SelectSeq(s, LAMBDA c : c \notin (Dashes \ {"-"}))
        b == SelectSeq(a, LAMBDA c : c # ".")
    IN  [i \in 1..Len(b) |-> IF b[i] = "," THEN "." ELSE b[i]]

\* The mutant of Clean that keeps the dots.
CleanKeepsDots(s) ==
    LET a == SelectSeq(s, LAMBDA c : c \notin Dashes)
    IN  [i \in 1..Len(a) |-> IF a[i] = "," THEN "." ELSE a[i]]

\* The three str.replace of lines 124-126
Clean(s) ==
    LET a == SelectSeq(s, LAMBDA c : c \notin Dashes)
        b == SelectSeq(a, LAMBDA c : c # ".")
    IN  [i \in 1..Len(b) |-> IF b[i] = "," THEN "." ELSE b[i]]

\* The mutant of ToNum that always parses the cleaned strings.
ToNumAlwaysCleans(cells) ==
    [i \in 1..Len(cells) |-> ParseNumber(Clean(AsStr(cells[i])))]

\* _to_num(series), the parameter being cells here
ToNum(cells) ==
    LET s_num     == [i \in 1..Len(cells) |-> ToNumeric(cells[i])]
        original  == Cardinality({i \in 1..Len(cells) : cells[i].t = "nan"})
        converted == Cardinality({i \in 1..Len(cells) : s_num[i] = NaNNum})
    IN  IF converted > original
        THEN [i \in 1..Len(cells) |-> ParseNumber(Clean(AsStr(cells[i])))]
        ELSE s_num

InitNum ==
    /\ column \in SeqsUpTo(NumCells, MaxColLen)
    /\ numPc = "call"
    /\ numOut = <<>>
    /\ SniffIdle /\ ReaderIdle /\ PromoIdle /\ SeriesIdle /\ MapIdle

\* out[newcol] = _to_num(...), lines 705-727, 765, 877
NumCall ==
    /\ numPc = "call"
    /\ numOut' = ToNum(column)
    /\ numPc' = "done"
    /\ UNCHANGED <<column, sniffVars, readerVars, promoVars, seriesVars, mapVars>>

NextNum == NumCall

SpecNum == InitNum /\ [][NextNum]_vars

\* Every cell of the column that is not NaN is a number or writes one.
FullyParseable ==
    \A i \in 1..Len(column) : column[i].t # "nan" => ToNumeric(column[i]) # NaNNum

\* C14: on a column whose cells, NaN apart, all are numbers or write numbers,
\* the result is the direct parse of every cell: the integer 952 and "952" give
\* 952, "1.5" gives 1.5 and "-5" gives -5, the dot and the sign being kept.
C14_IdentityOnNumbers ==
    numPc = "done" /\ FullyParseable =>
        /\ Len(numOut) = Len(column)
        /\ \A i \in 1..Len(column) :
              /\ numOut[i] = ToNumeric(column[i])
              /\ column[i] = TxtDate(<<"1", ".", "5">>) => numOut[i] = Number(FALSE, 15, 1)
              /\ column[i] = TxtDate(<<"-", "5">>) => numOut[i] = Number(TRUE, 5, 0)
              /\ column[i].t = "nan" => numOut[i] = NaNNum

\* C14's case: a column of "-5" and "1.5".
C14_Witness ==
    /\ numPc = "done"
    /\ column = <<TxtDate(<<"-", "5">>), TxtDate(<<"1", ".", "5">>)>>
    /\ numOut = <<Number(TRUE, 5, 0), Number(FALSE, 15, 1)>>

\* C15: "1.234,56" gives 1234.56 and "952" gives 952, whatever the other
\* cells of the column.
C15_LocaleNumber ==
    numPc = "done" =>
        \A i \in 1..Len(column) :
            /\ column[i] = TxtDate(<<"1", ".", "2", "3", "4", ",", "5", "6">>) => numOut[i] = Number(FALSE, 123456, 2)
            /\ column[i] = TxtDate(<<"9", "5", "2">>) => numOut[i] = Number(FALSE, 952, 0)

\* C15's case: a column of "1.234,56" and "952".
C15_Witness ==
    /\ numPc = "done"
    /\ column = <<TxtDate(<<"1", ".", "2", "3", "4", ",", "5", "6">>), TxtDate(<<"9", "5", "2">>)>>
    /\ numOut = <<Number(FALSE, 123456, 2), Number(FALSE, 952, 0)>>

\* The direct parse left more NaN than the column had: line 120 is true.
ReParsed ==
    Cardinality({i \in 1..Len(column) : ToNumeric(column[i]) = NaNNum})
        > Cardinality({i \in 1..Len(column) : column[i].t = "nan"})

\* C30: when the column is parsed again, the hyphens and dashes of every cell
\* are deleted first, so no cell of the result is negative: "-1.234,56" gives
\* 1234.56, and the cells the direct parse could read are rewritten as well,
\* "-5" to 5 and "1.5" to 15.
C30_ReparseDropsSigns ==
    (numPc = "done" /\ ReParsed) =>
        \A i \in 1..Len(column) :
            /\ numOut[i] = NaNNum \/ ~numOut[i].neg
            /\ column[i] = TxtDate(<<"-", "1", ".", "2", "3", "4", ",", "5", "6">>) => numOut[i] = Number(FALSE, 123456, 2)
            /\ column[i] = TxtDate(<<"-", "5">>) => numOut[i] = Number(FALSE, 5, 0)
            /\ column[i] = TxtDate(<<"1", ".", "5">>) => numOut[i] = Number(FALSE, 15, 0)
            /\ column[i] = TxtDate(<<"minus", "5">>) => numOut[i] = Number(FALSE, 5, 0)
            /\ column[i] = TxtDate(<<"emdash">>) => numOut[i] = NaNNum

\* C30's case: a column of "-1.234,56" and "-5".
C30_Witness ==
    /\ numPc = "done" /\ ReParsed
    /\ column = <<TxtDate(<<"-", "1", ".", "2", "3", "4", ",", "5", "6">>), TxtDate(<<"-", "5">>)>>
    /\ numOut = <<Number(FALSE, 123456, 2), Number(FALSE, 5, 0)>>

(***************************************************************************)
(*                       SEMANTIC COLUMN MAPPER                            *)
(*  parse_desempleo and parse_recaudacion from the cleaned table on: the   *)
(*  date column, the vocabulary, the assignments to `out`, the validation. *)
(***************************************************************************)

\* Bound of the mapper's inputs: the number of columns of a table.
MaxMapCols == 4

\* The column labels the tables are built from, already stripped.
DesempleoLabels ==
    {<<"F", "e", "c", "h", "a">>, <<"F", "E", "C", "H", "A">>, <<"P", "e", "r", "i", "o", "d", "o">>, <<"T", "o", "t", "a", "l">>, <<"M", "o", "n", "t", "e", "v", "i", "d", "e", "o">>, <<"I", "n", "t", "e", "r", "i", "o", "r">>,
     <<"T", "o", "t", "a", "l", " ", "A", "l", "t", "a", "s">>}
RecaudacionLabels ==
    {<<"F", "e", "c", "h", "a">>, <<"P", "r", "i", "v", "a", "d", "o", "s">>, <<"P", "uacute", "b", "l", "i", "c", "o", "s">>, <<"T", "o", "t", "a", "l">>, <<"T", "o", "t", "a", "l", " ", "P", "r", "i", "v", "a", "d", "o", "s">>}

\* The tables' column lists: up to n different labels of L, in any order.
ColumnLists(L, n) ==
    {s \in SeqsUpTo(L, n) : \A i, j \in 1..Len(s) : i < j => s[i] # s[j]}

\* The pairs <<sheet, df.attrs["sheet_name"]>> a document is parsed with.
HintSources ==
    {<<NoSheet, <<>>>>, <<NoSheet, <<"A", "L", "T", "A", "S">>>>, <<NoSheet, <<"E", "m", "i", "s", "i", "oacute", "n">>>>,
     <<SheetIndex(0), <<"e", "m", "i", "s", "i", "o", "n">>>>, <<NoSheet, <<"P", "r", "o", "m", "e", "d", "i", "o">>>>,
     <<SheetName(<<"A", "l", "t", "a", "s">>), <<"P", "r", "o", "m", "e", "d", "i", "o">>>>}

\* The values of fecha_col_guess: None, or a label.
Guesses == {<<>>, <<"P", "e", "r", "i", "o", "d", "o">>}

\* \w of a label's characters: every one but the space
IsWord(c) == c # " "

\* \b before position i of s
Boundary(s, i) ==
    (i > 1 /\ i - 1 <= Len(s) /\ IsWord(s[i - 1])) # (i <= Len(s) /\ IsWord(s[i]))

\* The atoms the regular expressions of the mapper are alternations of.
Lit(w)          == [k |-> "lit", w |-> w]                    \* w
Word(w)         == [k |-> "word", w |-> w]                   \* \bw\b
Then(a, b)      == [k |-> "then", a |-> a, b |-> b]          \* a.*b
Start(w, unless) == [k |-> "start", w |-> w, unless |-> unless]  \* \bw(?!.*unless)
Spaced(a, b)    == [k |-> "spaced", a |-> a, b |-> b]        \* \ba\s+b\b

\* re.search(atom, s) is not None
AtomFound(atom, s) ==
    CASE atom.k = "lit" -> Contains(s, atom.w)
      [] atom.k = "word" ->
            \E i \in 1..Len(s) :
                /\ Boundary(s, i) /\ Occurs(s, atom.w, i)
                /\ Boundary(s, i + Len(atom.w))
      [] atom.k = "then" ->
            \E i, j \in 1..Len(s) :
                /\ Occurs(s, atom.a, i) /\ j >= i + Len(atom.a)
                /\ Occurs(s, atom.b, j)
      [] atom.k = "start" ->
            \E i \in 1..Len(s) :
                /\ Boundary(s, i) /\ Occurs(s, atom.w, i)
                /\ \/ atom.unless = <<>>
                   \/ ~ \E j \in 1..Len(s) : /\ j >= i + Len(atom.w)
                                             /\ Occurs(s, atom.unless, j)
      [] atom.k = "spaced" ->
            \E i, j \in 1..Len(s) :
                /\ Boundary(s, i) /\ Occurs(s, atom.a, i)
                /\ j > i + Len(atom.a)
                /\ \A n \in (i + Len(atom.a))..(j - 1) : s[n] = " "
                /\ Occurs(s, atom.b, j) /\ Boundary(s, j + Len(atom.b))

\* re.search(p, c_low): p is the set of the alternatives of the expression
Search(p, c_low) == \E atom \in p : AtomFound(atom, c_low)

\* cols_low = {str(c).lower(): c for c in df.columns}, as the tuple of its items:
\* a key stands where it first came, with the last column it came from.
ColsLow(cols) ==
    LET n     == Len(cols)
        low   == [i \in 1..n |-> Lower(cols[i])]
        first == Ascending({i \in 1..n : \A j \in 1..(i - 1) : low[j] # low[i]})
    IN  [m \in 1..Len(first) |->
            [key |-> low[first[m]],
             val |-> cols[CHOOSE j \in 1..n :
                        /\ low[j] = low[first[m]]
                        /\ \A h \in (j + 1)..n : low[h] # low[j]]]]

\* next((cols_low[c] for c in cols_low if "fecha" in c or "mes" in c), None)
FechaByName(cl) ==
    LET hits == {m \in 1..Len(cl) :
                    Contains(cl[m].key, <<"f", "e", "c", "h", "a">>) \/ Contains(cl[m].key, <<"m", "e", "s">>)}
    IN  IF hits = {} THEN <<>> ELSE cl[Ascending(hits)[1]].val

\* find_col(patterns)
find_col(cl, patterns) ==
    LET found(p) == {m \in 1..Len(cl) : Search(patterns[p], cl[m].key)}
        ps       == {p \in 1..Len(patterns) : found(p) # {}}
    IN  IF ps = {} THEN <<>>
        ELSE cl[Ascending(found(Ascending(ps)[1]))[1]].val

\* sheet_hint
SheetHint(sheet_arg, attr_name) ==
    IF sheet_arg.t = "name" THEN Lower(sheet_arg.name) ELSE Lower(attr_name)

\* is_emision, is_promedio
IsEmision(sheet_hint) ==
    Contains(sheet_hint, <<"e", "m", "i", "s", "i", "oacute", "n">>) \/ Contains(sheet_hint, <<"e", "m", "i", "s", "i", "o", "n">>)
IsPromedio(sheet_hint) == Contains(sheet_hint, <<"p", "r", "o", "m", "e", "d", "i", "o">>)

\* The mutant of IsAltas that never infers the vocabulary from the columns.
IsAltasByHintOnly(sheet_hint, cols) == Contains(sheet_hint, <<"a", "l", "t", "a", "s">>)

\* is_altas, after the inference from the zone columns
IsAltas(sheet_hint, cols) ==
    \/ Contains(sheet_hint, <<"a", "l", "t", "a", "s">>)
    \/ /\ ~IsEmision(sheet_hint) /\ ~IsPromedio(sheet_hint)
       /\ \E i \in 1..Len(cols) : Lower(cols[i]) = <<"m", "o", "n", "t", "e", "v", "i", "d", "e", "o">>
       /\ \E i \in 1..Len(cols) : Lower(cols[i]) = <<"i", "n", "t", "e", "r", "i", "o", "r">>

\* The branch of the if/elif chain that builds cand_map.
Vocabulary(sheet_hint, cols) ==
    IF IsAltas(sheet_hint, cols) THEN "altas"
    ELSE IF IsEmision(sheet_hint) THEN "emision"
    ELSE IF IsPromedio(sheet_hint) THEN "promedio"
    ELSE "generic"

Rule(newcol, pats) == [newcol |-> newcol, pats |-> pats]

\* cand_map of parse_desempleo, in the order of its items
CandMap(v) ==
    CASE v = "altas" ->
            <<Rule("altas", <<{Word(<<"a", "l", "t", "a">>), Word(<<"a", "l", "t", "a", "s">>)}>>),
              Rule("altas_montevideo", <<{Word(<<"m", "o", "n", "t", "e", "v", "i", "d", "e", "o">>)}>>),
              Rule("altas_interior", <<{Word(<<"i", "n", "t", "e", "r", "i", "o", "r">>)}>>),
              Rule("altas_despido", <<{Word(<<"d", "e", "s", "p", "i", "d", "o">>)}>>),
              Rule("altas_suspension",
                   <<{Word(<<"s", "u", "s", "p", "e", "n", "s", "i", "o", "n">>), Word(<<"s", "u", "s", "p", "e", "n", "s", "i", "oacute", "n">>)}>>),
              Rule("altas_fin_contrato", <<{Then(<<"f", "i", "n">>, <<"c", "o", "n", "t", "r", "a", "t", "o">>)}>>)>>
      [] v = "emision" ->
            <<Rule("beneficiarios", <<{Lit(<<"b", "e", "n", "e", "f", "i", "c", "i", "a", "r", "i">>)}>>),
              Rule("altas", <<{Word(<<"a", "l", "t", "a">>), Word(<<"a", "l", "t", "a", "s">>)}>>),
              Rule("bajas", <<{Word(<<"b", "a", "j", "a">>), Word(<<"b", "a", "j", "a", "s">>)}>>)>>
      [] v = "promedio" ->
            <<Rule("importe_promedio_montevideo", <<{Word(<<"m", "o", "n", "t", "e", "v", "i", "d", "e", "o">>)}>>),
              Rule("importe_promedio_interior", <<{Word(<<"i", "n", "t", "e", "r", "i", "o", "r">>)}>>),
              Rule("importe_promedio_total", <<{Word(<<"t", "o", "t", "a", "l">>)}>>)>>
      [] v = "generic" ->
            <<Rule("beneficiarios", <<{Lit(<<"b", "e", "n", "e", "f", "i", "c", "i", "a", "r", "i">>)}>>),
              Rule("altas", <<{Word(<<"a", "l", "t", "a">>), Word(<<"a", "l", "t", "a", "s">>)}>>),
              Rule("bajas", <<{Word(<<"b", "a", "j", "a">>), Word(<<"b", "a", "j", "a", "s">>)}>>),
              Rule("monto_total",
                   <<{Start(<<"m", "o", "n", "t", "o">>, <<>>), Start(<<"i", "m", "p", "o", "r", "t", "e">>, <<"p", "r", "o", "m", "e", "d", "i", "o">>),
                      Start(<<"t", "o", "t", "a", "l">>, <<"p", "r", "o", "m", "e", "d", "i", "o">>)}>>)>>

\* cand_map of parse_recaudacion
RecCandMap ==
    <<Rule("recaudacion_privados", <<{Word(<<"p", "r", "i", "v", "a", "d", "o", "s">>)}>>),
      Rule("recaudacion_publicos",
           <<{Word(<<"p", "uacute", "b", "l", "i", "c", "o", "s">>), Word(<<"p", "u", "b", "l", "i", "c", "o", "s">>)}>>),
      Rule("recaudacion_total",
           <<{Word(<<"t", "o", "t", "a", "l">>)}, {Spaced(<<"t", "o", "t", "a", "l">>, <<"p", "a", "i", "s">>), Spaced(<<"t", "o", "t", "a", "l">>, <<"p", "a", "iacute", "s">>)}>>)>>

\* out[newcol] = ... df[source] ..., made by the step `by` of the parser
Assign(newcol, source, by) == [newcol |-> newcol, source |-> source, by |-> by]

\* out.columns
OutColumns(o) == {o[i].newcol : i \in 1..Len(o)}

\* The mutant of AlreadyMapped under which the loop never skips a target.
NeverSkipped(o, newcol, parser) == FALSE

\* `if newcol in out.columns: continue`, which only parse_desempleo has
AlreadyMapped(o, newcol, parser) ==
    parser = "desempleo" /\ newcol \in OutColumns(o)

\* for newcol, pats in cand_map.items(): ..., from the item k on
RECURSIVE MapLoop(_, _, _, _, _)
MapLoop(o, cl, cand, k, parser) ==
    IF k > Len(cand) THEN o
    ELSE LET source == find_col(cl, cand[k].pats)
         IN  IF AlreadyMapped(o, cand[k].newcol, parser) \/ source = <<>>
             THEN MapLoop(o, cl, cand, k + 1, parser)
             ELSE MapLoop(Append(o, Assign(cand[k].newcol, source, "pattern")),
                          cl, cand, k + 1, parser)

\* The source of the column that is computed from two columns of `out`.
ZoneSum == <<"altas_montevideo", "+", "altas_interior">>

\* The target of the column "Total" in parse_desempleo, None when it has none;
\* "altas" is not yet in out.columns there.
TotalTarget(sheet_hint, has_zona) ==
    IF Contains(sheet_hint, <<"a", "l", "t", "a", "s">>) \/ has_zona THEN "altas"
    ELSE IF IsEmision(sheet_hint) THEN "beneficiarios"
    ELSE IF IsPromedio(sheet_hint) THEN "importe_promedio_total"
    ELSE None

\* The assignments to `out` of parse_desempleo, in order.
DesempleoOut(cols, sheet_hint, fcol) ==
    LET cl        == ColsLow(cols)
        monte_col == find_col(cl, <<{Word(<<"m", "o", "n", "t", "e", "v", "i", "d", "e", "o">>)}>>)
        inter_col == find_col(cl, <<{Word(<<"i", "n", "t", "e", "r", "i", "o", "r">>)}>>)
        has_zona  == monte_col # <<>> /\ inter_col # <<>>
        zone      == IF has_zona
                     THEN <<Assign("altas_montevideo", monte_col, "zone"),
                            Assign("altas_interior", inter_col, "zone")>>
                     ELSE <<>>
        dated     == Append(zone, Assign("fecha", fcol, "fecha"))
        totals    == {m \in 1..Len(cl) : Strip(cl[m].key) = <<"t", "o", "t", "a", "l">>}
        total_col == IF totals = {} THEN <<>> ELSE cl[Ascending(totals)[1]].val
        target    == TotalTarget(sheet_hint, has_zona)
        special   == IF total_col # <<>> /\ target # None
                     THEN Append(dated, Assign(target, total_col, "total"))
                     ELSE dated
        mapped    == MapLoop(special, cl, CandMap(Vocabulary(sheet_hint, cols)),
                             1, "desempleo")
    IN  IF /\ "altas" \notin OutColumns(mapped)
           /\ {"altas_montevideo", "altas_interior"} \subseteq OutColumns(mapped)
        THEN Append(mapped, Assign("altas", ZoneSum, "sum"))
        ELSE mapped

\* The assignments to `out` of parse_recaudacion, in order.
RecaudacionOut(cols, fcol) ==
    MapLoop(<<Assign("fecha", fcol, "fecha")>>, ColsLow(cols), RecCandMap,
            1, "recaudacion")

\* metric_cols and required_cols
MetricCols ==
    {"beneficiarios", "altas", "bajas", "monto_total", "importe_promedio_total",
     "altas_montevideo", "altas_interior", "altas_despido"}
RequiredCols ==
    {"recaudacion_privados", "recaudacion_publicos", "recaudacion_total"}

\* The header of `out`: its columns in the order they were first assigned.
Header(o) == [i \in 1..Len(o) |-> o[i].newcol]

\* The mutant of Passes that lets parse_recaudacion pass with one metric.
PassesWithAny(parser, o) ==
    IF parser = "desempleo" THEN MetricCols \cap OutColumns(o) # {}
    ELSE RequiredCols \cap OutColumns(o) # {}

\* The validation lets the table through: `not metric_cols.isdisjoint(out.columns)`
\* in parse_desempleo, `required_cols.issubset(out.columns)` in parse_recaudacion.
Passes(parser, o) ==
    IF parser = "desempleo" THEN MetricCols \cap OutColumns(o) # {}
    ELSE RequiredCols \subseteq OutColumns(o)

\* The warnings of a validation that fails.
Warnings(parser, o) ==
    IF parser = "desempleo"
    THEN <<[k |-> "Columnas detectadas", header |-> Header(o)]>>
    ELSE <<[k |-> "Columnas detectadas", header |-> Header(o)],
           [k |-> "Columnas faltantes", missing |-> RequiredCols \ OutColumns(o)]>>

\* The mutant of ToCsv that writes the file before the validation.
ToCsvBeforeGate(parser, o, file) == Append(file, Header(o))

\* The file after the validation and out.to_csv(out_csv, index=False).
ToCsv(parser, o, file) ==
    IF Passes(parser, o) THEN Append(file, Header(o)) ELSE file

\* The values of the zone columns after _to_num: whole numbers and NaN.
Whole(n) == Number(FALSE, n, 0)

\* The rows of the two zone columns of the tables read.
ZoneTables ==
    {<<>>,
     <<[m |-> Whole(2), i |-> Whole(3)]>>,
     <<[m |-> NaNNum, i |-> Whole(3)], [m |-> Whole(2), i |-> NaNNum]>>,
     <<[m |-> NaNNum, i |-> NaNNum], [m |-> Whole(0), i |-> Whole(5)]>>}

\* The mutant of FillNa0 that leaves NaN in place.
FillNaNothing(v) == v

\* .fillna(0)
FillNa0(v) == IF v = NaNNum THEN Whole(0) ELSE v

\* The sum of two values of a column of floats: NaN if either is NaN.
Plus(a, b) ==
    IF a = NaNNum \/ b = NaNNum THEN NaNNum ELSE Whole(a.mant + b.mant)

\* out["altas_montevideo"].fillna(0) + out["altas_interior"].fillna(0)
SumOfZones(rows) ==
    [r \in 1..Len(rows) |-> Plus(FillNa0(rows[r].m), FillNa0(rows[r].i))]

\* The exception a parser ends with.
MapError(type, msg) == [t |-> "error", type |-> type, args |-> <<msg>>]

\* out.to_csv(out_csv, index=False): the header of the file written
Written(o) == [t |-> "written", header |-> Header(o)]

\* A parser starts on a document _read_table_like cannot read (mapPc is
\* "read") or goes on with the table read and cleaned (mapPc is "date").
InitMap ==
    /\ SniffIdle /\ ReaderIdle /\ PromoIdle /\ SeriesIdle /\ NumIdle
    /\ doc \in {"desempleo", "recaudacion"}
    /\ \/ /\ mapPc = "date"
          /\ columns \in ColumnLists(IF doc = "desempleo" THEN DesempleoLabels
                                     ELSE RecaudacionLabels, MaxMapCols)
          /\ \E hs \in (IF doc = "desempleo" THEN HintSources
                         ELSE {<<NoSheet, <<>>>>}) :
                sheetParam = hs[1] /\ sheet_name = hs[2]
          /\ fecha_col_guess \in Guesses
       \/ /\ mapPc = "read"
          /\ columns = <<>> /\ sheetParam = NoSheet /\ sheet_name = <<>>
          /\ fecha_col_guess = <<>>
    /\ c0hit = FALSE /\ fecha_col = <<>>
    /\ vocab = None /\ out = <<>> /\ mapResult = NoResult
    /\ mapLogged = <<>> /\ out_csv = <<>> /\ zonas = <<>> /\ altas = <<>>

\* df = _read_table_like(...) raises (lines 638, 817): the parser ends with
\* the error of the reader.
ReadFails ==
    /\ mapPc = "read"
    /\ \E k \in Kinds : mapResult' = Exhausted(k)
    /\ mapPc' = "done"
    /\ UNCHANGED <<doc, columns, sheetParam, sheet_name, fecha_col_guess, c0hit,
                   fecha_col, vocab, out, mapLogged, out_csv, zonas, altas>>
    /\ UNCHANGED <<sniffVars, readerVars, promoVars, seriesVars, numVars>>

\* "Encontrar columna de fecha": the guess, the name, the first column.
ResolveDate ==
    /\ mapPc = "date"
    /\ LET named == IF fecha_col_guess # <<>> THEN fecha_col_guess
                    ELSE FechaByName(ColsLow(columns))
       IN  IF named # <<>>
           THEN /\ fecha_col' = named /\ mapPc' = "metrics"
                /\ UNCHANGED <<c0hit, mapResult>>
           ELSE IF columns = <<>>
           THEN \* list(df.columns)[0]
                /\ mapResult' = MapError("IndexError", "list index out of range")
                /\ mapPc' = "done"
                /\ UNCHANGED <<c0hit, fecha_col>>
           ELSE \E hit \in BOOLEAN :
                /\ c0hit' = hit
                /\ IF hit
                   THEN /\ fecha_col' = columns[1] /\ mapPc' = "metrics"
                        /\ UNCHANGED mapResult
                   ELSE /\ mapResult' = MapError("ValueError",
                                            "No encuentro columna de fecha/mes")
                        /\ mapPc' = "done"
                        /\ UNCHANGED fecha_col
    /\ UNCHANGED <<doc, columns, sheetParam, sheet_name, fecha_col_guess, vocab, out,
                   mapLogged, out_csv, zonas, altas>>
    /\ UNCHANGED <<sniffVars, readerVars, promoVars, seriesVars, numVars>>

\* parse_desempleo from find_col to the synthesis of "altas"
MapDesempleo ==
    /\ mapPc = "metrics" /\ doc = "desempleo"
    /\ IF \E i \in 1..Len(columns) : columns[i] = fecha_col
       THEN /\ out' = DesempleoOut(columns, SheetHint(sheetParam, sheet_name),
                                   fecha_col)
            /\ vocab' = Vocabulary(SheetHint(sheetParam, sheet_name), columns)
            /\ mapPc' = "validate"
            /\ IF \E n \in 1..Len(out') : out'[n].by = "sum"
               THEN \E rows \in ZoneTables :
                       zonas' = rows /\ altas' = SumOfZones(rows)
               ELSE UNCHANGED <<zonas, altas>>
            /\ UNCHANGED mapResult
       ELSE \* df[fecha_col]
            /\ mapResult' = MapError("KeyError", "fecha_col")
            /\ mapPc' = "done"
            /\ UNCHANGED <<vocab, out, zonas, altas>>
    /\ UNCHANGED <<doc, columns, sheetParam, sheet_name, fecha_col_guess, c0hit,
                   fecha_col, mapLogged, out_csv>>
    /\ UNCHANGED <<sniffVars, readerVars, promoVars, seriesVars, numVars>>

\* parse_recaudacion from out["fecha"] to the end of the loop over cand_map
MapRecaudacion ==
    /\ mapPc = "metrics" /\ doc = "recaudacion"
    /\ IF \E i \in 1..Len(columns) : columns[i] = fecha_col
       THEN /\ out' = RecaudacionOut(columns, fecha_col)
            /\ mapPc' = "validate"
            /\ UNCHANGED mapResult
       ELSE /\ mapResult' = MapError("KeyError", "fecha_col")
            /\ mapPc' = "done"
            /\ UNCHANGED out
    /\ UNCHANGED <<doc, columns, sheetParam, sheet_name, fecha_col_guess, c0hit,
                   fecha_col, vocab, mapLogged, out_csv, zonas, altas>>
    /\ UNCHANGED <<sniffVars, readerVars, promoVars, seriesVars, numVars>>

\* "Validación" and out.to_csv
Validate ==
    /\ mapPc = "validate"
    /\ mapPc' = "done"
    /\ mapResult' =
          IF Passes(doc, out) THEN Written(out)
          ELSE IF doc = "desempleo"
          THEN MapError("ValueError", "No detecte NINGUNA metrica esperada")
          ELSE MapError("ValueError", "No detecte todas las metricas esperadas")
    /\ mapLogged' = IF Passes(doc, out) THEN mapLogged ELSE Warnings(doc, out)
    /\ out_csv' = ToCsv(doc, out, out_csv)
    /\ UNCHANGED <<doc, columns, sheetParam, sheet_name, fecha_col_guess, c0hit,
                   fecha_col, vocab, out, zonas, altas>>
    /\ UNCHANGED <<sniffVars, readerVars, promoVars, seriesVars, numVars>>

NextMap == ReadFails \/ ResolveDate \/ MapDesempleo \/ MapRecaudacion \/ Validate

SpecMap == InitMap /\ [][NextMap]_vars

(***************************************************************************)
(* Claims about the semantic column mapper.                                *)
(***************************************************************************)

\* The date column has been looked for.
DateResolved == mapPc \in {"metrics", "validate", "done"}

\* The metrics have been mapped.
Mapped == mapPc \in {"validate", "done"} /\ out # <<>>

\* C16: the date column is the caller-supplied name if one is given; else the
\* first column whose lower-cased name contains "fecha" or "mes"; else the
\* first column of the table, provided over 30% of its values look like a year
\* or a month name; when none of the three applies the parser fails and emits
\* no series.
C16_DatePreferenceOrder ==
    DateResolved =>
        LET named == {i \in 1..Len(columns) :
                        \/ Contains(Lower(columns[i]), <<"f", "e", "c", "h", "a">>)
                        \/ Contains(Lower(columns[i]), <<"m", "e", "s">>)}
        IN  IF fecha_col_guess # <<>> THEN fecha_col = fecha_col_guess
            ELSE IF named # {}
            THEN fecha_col = columns[CHOOSE i \in named : \A j \in named : i <= j]
            ELSE IF columns # <<>> /\ c0hit THEN fecha_col = columns[1]
            ELSE mapResult.t = "error" /\ out = <<>>

\* C17: in parse_desempleo one vocabulary is active, chosen by the sheet hint:
\* "altas" gives the new-claims vocabulary, "emisión" or "emision" the
\* benefit-issuance one, "promedio" the average-amount one, no token the
\* generic one, except that a table with a "montevideo" and an "interior"
\* column gives the new-claims vocabulary when the hint has no token; every
\* target mapped by a pattern is a target of that vocabulary.
C17_VocabularyFromHint ==
    (Mapped /\ doc = "desempleo") =>
        LET h == IF sheetParam.t = "name" THEN Lower(sheetParam.name)
                 ELSE Lower(sheet_name)
            zones == /\ \E i \in 1..Len(columns) : Lower(columns[i]) = <<"m", "o", "n", "t", "e", "v", "i", "d", "e", "o">>
                     /\ \E i \in 1..Len(columns) : Lower(columns[i]) = <<"i", "n", "t", "e", "r", "i", "o", "r">>
            token == Contains(h, <<"a", "l", "t", "a", "s">>) \/ Contains(h, <<"e", "m", "i", "s", "i", "oacute", "n">>)
                     \/ Contains(h, <<"e", "m", "i", "s", "i", "o", "n">>) \/ Contains(h, <<"p", "r", "o", "m", "e", "d", "i", "o">>)
            targets ==
                CASE vocab = "altas" ->
                        {"altas", "altas_montevideo", "altas_interior",
                         "altas_despido", "altas_suspension", "altas_fin_contrato"}
                  [] vocab = "emision" -> {"beneficiarios", "altas", "bajas"}
                  [] vocab = "promedio" ->
                        {"importe_promedio_montevideo", "importe_promedio_interior",
                         "importe_promedio_total"}
                  [] vocab = "generic" ->
                        {"beneficiarios", "altas", "bajas", "monto_total"}
        IN  /\ vocab \in {"altas", "emision", "promedio", "generic"}
            /\ Contains(h, <<"a", "l", "t", "a", "s">>) => vocab = "altas"
            /\ (Contains(h, <<"e", "m", "i", "s", "i", "oacute", "n">>) \/ Contains(h, <<"e", "m", "i", "s", "i", "o", "n">>)) => vocab = "emision"
            /\ Contains(h, <<"p", "r", "o", "m", "e", "d", "i", "o">>) => vocab = "promedio"
            /\ (~token /\ zones) => vocab = "altas"
            /\ (~token /\ ~zones) => vocab = "generic"
            /\ \A i \in 1..Len(out) :
                  out[i].by = "pattern" => out[i].newcol \in targets

\* C17 witness: a table with both zone columns, parsed without a token in the
\* hint, has been mapped with the new-claims vocabulary.
C17_Witness ==
    /\ Mapped /\ doc = "desempleo" /\ vocab = "altas"
    /\ sheetParam = NoSheet /\ sheet_name = <<>>
    /\ \E i \in 1..Len(out) : out[i].by = "pattern"

\* C18: the column named "Total" is mapped by the active vocabulary: to
\* "altas" under the new-claims vocabulary, to "beneficiarios" under the
\* benefit-issuance vocabulary, to "importe_promedio_total" under the
\* average-amount vocabulary, also when the table has the Montevideo and
\* Interior zone columns.
C18_TotalByVocabulary ==
    (/\ Mapped /\ doc = "desempleo" /\ vocab # "generic"
     /\ \E i \in 1..Len(columns) : columns[i] = <<"T", "o", "t", "a", "l">>) =>
        LET want == CASE vocab = "altas" -> "altas"
                      [] vocab = "emision" -> "beneficiarios"
                      [] vocab = "promedio" -> "importe_promedio_total"
        IN  /\ \E i \in 1..Len(out) :
                  out[i].newcol = want /\ out[i].source = <<"T", "o", "t", "a", "l">>
            /\ \A i \in 1..Len(out) :
                  out[i].by = "total" => out[i].newcol = want

\* C19: each target is assigned at most once; a target mapped by a pattern
\* has, as its source, a column matching the first pattern of its rule that
\* matches some column; a target the handling of "Total" populated is not
\* assigned again by the loop over cand_map.
C19_OneAssignmentPerTarget ==
    Mapped =>
        LET rules == IF doc = "desempleo" THEN CandMap(vocab) ELSE RecCandMap
            matching(p) == {c \in 1..Len(columns) : Search(p, Lower(columns[c]))}
        IN  /\ \A i, j \in 1..Len(out) : i < j => out[i].newcol # out[j].newcol
            /\ \A i \in 1..Len(out) :
                  out[i].by = "pattern" =>
                     \E r \in 1..Len(rules) :
                        /\ rules[r].newcol = out[i].newcol
                        /\ \E p \in 1..Len(rules[r].pats) :
                              /\ Search(rules[r].pats[p], Lower(out[i].source))
                              /\ \A q \in 1..(p - 1) : matching(rules[r].pats[q]) = {}
            /\ \A i \in 1..Len(out) :
                  out[i].by = "total" =>
                     /\ out[i].source = <<"T", "o", "t", "a", "l">>
                     /\ \A j \in 1..Len(out) :
                           out[j].newcol = out[i].newcol => j = i

\* C19 witness: "Total" populated "altas" and a column that matches the
\* pattern of "altas" stands in the table; the parser has gone through the loop.
C19_Witness ==
    /\ Mapped /\ doc = "desempleo" /\ vocab = "altas"
    /\ \E i \in 1..Len(out) : out[i].by = "total" /\ out[i].newcol = "altas"
    /\ \E c \in 1..Len(columns) : columns[c] = <<"T", "o", "t", "a", "l", " ", "A", "l", "t", "a", "s">>
    /\ \E i \in 1..Len(out) : out[i].by = "pattern"

\* C20: no column of the table is the source of more than one metric of `out`.
C20_OneMetricPerSource ==
    Mapped =>
        \A i, j \in 1..Len(out) :
            (/\ i < j
             /\ out[i].by \in {"zone", "total", "pattern"}
             /\ out[j].by \in {"zone", "total", "pattern"})
            => out[i].source # out[j].source


\* The metric names the vocabularies of parse_desempleo can populate.
KnownMetrics ==
    UNION {{CandMap(v)[k].newcol : k \in 1..Len(CandMap(v))} :
              v \in {"altas", "emision", "promedio", "generic"}}

\* The parser went through its validation.
Validated == mapPc = "done" /\ out # <<>>

\* C25: in every series written the date column is the first column, so that
\* "fecha" precedes altas_montevideo and altas_interior when the table has the
\* zone columns.
C25_DateFirstFixedOrder ==
    \A w \in 1..Len(out_csv) :
        /\ out_csv[w][1] = "fecha"
        /\ \A i, j \in 1..Len(out_csv[w]) :
              /\ out_csv[w][i] = "fecha"
              /\ out_csv[w][j] \in {"altas_montevideo", "altas_interior"}
              => i < j

\* C22: parse_desempleo succeeds if and only if at least one of the metric
\* names its vocabularies can populate was mapped, and otherwise fails with an
\* error that carries the names of the columns present.
C22_AnyKnownMetricPasses ==
    (Validated /\ doc = "desempleo") =>
        /\ mapResult.t = "written" <=> OutColumns(out) \cap KnownMetrics # {}
        /\ mapResult.t = "error" =>
              \A c \in 1..Len(out) :
                 \E a \in 1..Len(mapResult.args) : mapResult.args[a] = out[c].newcol

\* The required metrics of parse_recaudacion that were not mapped.
Missing == RequiredCols \ {out[i].newcol : i \in 1..Len(out)}

\* The metrics the message of an error names: the message of the validation
\* of parse_recaudacion ends with "(Privados, Publicos, Total)".
MetricsNamed(msg) ==
    IF msg = "No detecte todas las metricas esperadas" THEN RequiredCols ELSE {}

\* C23 as stated: when one of the three metrics of the collections document is
\* not mapped the parser fails and the error names exactly the missing
\* metrics; it succeeds only when the three are mapped.
C23_ErrorNamesMissing ==
    (Validated /\ doc = "recaudacion") =>
        /\ Missing # {} =>
              /\ mapResult.t = "error"
              /\ MetricsNamed(mapResult.args[1]) = Missing
        /\ mapResult.t = "written" => Missing = {}

\* C23: when one of the three metrics of the collections document is not
\* mapped the parser fails with a ValueError whose message is the same
\* whatever is missing, and exactly the missing metrics are named in a warning
\* of the log; it succeeds only when the three are mapped.
C23_MissingLoggedFixedMessage ==
    (Validated /\ doc = "recaudacion") =>
        /\ Missing # {} =>
              /\ mapResult.t = "error" /\ mapResult.type = "ValueError"
              /\ mapResult.args = <<"No detecte todas las metricas esperadas">>
              /\ \E w \in 1..Len(mapLogged) :
                    /\ mapLogged[w].k = "Columnas faltantes"
                    /\ mapLogged[w].missing = Missing
        /\ mapResult.t = "written" => Missing = {} /\ mapLogged = <<>>

\* C23: the validation failed on a table with exactly one of the three
\* metrics missing.
C23_Witness ==
    /\ Validated /\ doc = "recaudacion" /\ mapResult.t = "error"
    /\ Cardinality(Missing) = 1

\* C24: the output file is written only after the table was read, the date
\* column resolved and the validation passed; an execution that ends in an
\* error of the reader, of the date column or of the validation has not written
\* the file.
C24_NoOutputOnFailure ==
    /\ mapResult.t = "error" => out_csv = <<>>
    /\ mapPc # "done" => out_csv = <<>>
    /\ out_csv # <<>> =>
          /\ Len(out_csv) = 1
          /\ mapResult.t = "written" /\ mapResult.header = out_csv[1]
          /\ fecha_col # <<>> /\ \E c \in 1..Len(columns) : columns[c] = fecha_col
          /\ \E i \in 1..Len(out) :
                IF doc = "desempleo" THEN out[i].newcol \in MetricCols
                ELSE out[i].newcol = "recaudacion_total"

\* C24: a parser had mapped a metric and failed at its validation.
C24_Witness ==
    /\ mapPc = "done" /\ mapResult.t = "error" /\ Len(out) >= 2
    /\ mapLogged # <<>> /\ out_csv = <<>>

\* The table has a column named "Total" or a column with the word "alta" or
\* "altas" in its name.
HasTotalOrAltas ==
    \E c \in 1..Len(columns) :
        \/ Lower(columns[c]) = <<"t", "o", "t", "a", "l">>
        \/ AtomFound(Word(<<"a", "l", "t", "a">>), Lower(columns[c]))
        \/ AtomFound(Word(<<"a", "l", "t", "a", "s">>), Lower(columns[c]))

\* The table has a column with the given word in its name.
HasWord(word) ==
    \E c \in 1..Len(columns) : AtomFound(Word(word), Lower(columns[c]))

\* C21: on the unemployment document with the sheet hint "Altas", columns of
\* Montevideo and of Interior and no column "Total" or "altas", `out` has an
\* "altas" whose value in every row is altas_montevideo + altas_interior of
\* that row with NaN taken as 0; "altas" is computed so only when nothing else
\* resolved it.
C21_AltasFromZones ==
    (Mapped /\ doc = "desempleo") =>
        /\ ( /\ Contains(SheetHint(sheetParam, sheet_name), <<"a", "l", "t", "a", "s">>)
             /\ HasWord(<<"m", "o", "n", "t", "e", "v", "i", "d", "e", "o">>)
             /\ HasWord(<<"i", "n", "t", "e", "r", "i", "o", "r">>)
             /\ ~HasTotalOrAltas )
           => /\ \E n \in 1..Len(out) : out[n].newcol = "altas" /\ out[n].by = "sum"
              /\ Len(altas) = Len(zonas)
              /\ \A r \in 1..Len(zonas) :
                    altas[r] =
                       Whole((IF zonas[r].m = NaNNum THEN 0 ELSE zonas[r].m.mant)
                             + (IF zonas[r].i = NaNNum THEN 0 ELSE zonas[r].i.mant))
        /\ \A n \in 1..Len(out) :
              out[n].by = "sum" =>
                 /\ out[n].newcol = "altas"
                 /\ \A k \in 1..Len(out) : out[k].newcol = "altas" => k = n
                 /\ \E k \in 1..Len(out) : out[k].newcol = "altas_montevideo"
                 /\ \E k \in 1..Len(out) : out[k].newcol = "altas_interior"

\* C21: "altas" was computed from a row with a NaN in one zone and a row with
\* a NaN in the other, under the sheet hint "Altas".
C21_Witness ==
    /\ Mapped /\ doc = "desempleo"
    /\ Contains(SheetHint(sheetParam, sheet_name), <<"a", "l", "t", "a", "s">>)
    /\ \E n \in 1..Len(out) : out[n].by = "sum"
    /\ Len(zonas) = 2 /\ zonas[1].m = NaNNum /\ zonas[2].i = NaNNum
    /\ altas = <<Whole(3), Whole(2)>>
=============================================================================
